---- MODULE Spec2Model ----
(***************************************************************************)
(* Assessment engine of nappologue/pop: quiz instance generation, the      *)
(* instance fingerprint, grading, and the quiz attempt lifecycle.          *)
(***************************************************************************)
EXTENDS Integers, Sequences, FiniteSets, TLC

VARIABLES
    quizzes,     \* table quizzes: quiz id -> Quiz row
    questions,   \* table questions: Question rows in catalog (order_index) order
    attempts,    \* table quiz_attempts: QuizAttempt rows, the id is the position
    now,         \* datetime.utcnow()
    resp,        \* outcome of the last call
    issued,      \* per attempt id: the quiz_instance start_quiz_attempt generated for it
    sessions,    \* per in-flight request: what it is doing and the row its session loaded
    hashed,      \* the two instances handed to generate_quiz_hash, and their digests
    progress,    \* table training_progress: TrainingProgress rows
    question_id_seq  \* the last id the sequence of questions.id handed out

vars == <<quizzes, questions, attempts, now, resp, issued, sessions, hashed, progress,
          question_id_seq>>

(***************************************************************************)
(* Bounds                                                                  *)
(***************************************************************************)
MaxAttempts == 2
MaxTime == 1
MaxQuestions == 3
MaxOptions == 2
MaxHashed == 2
MaxChoices == 3
MaxGraded == 2

Users == {1, 2}
QuizId == 1
NoQuizId == 2
OtherQuizId == 3

(***************************************************************************)
(* Python / JSON values                                                    *)
(***************************************************************************)
None == <<>>
Some(n) == <<n>>

Min(a, b) == IF a <= b THEN a ELSE b

\* a dict holding (some of) the keys of a quiz instance
NoDict ==
    [keys |-> {}, quiz_id |-> 0, questions |-> <<>>, question_ids |-> <<>>,
     quiz_hash |-> <<>>]

\* JSON values a request body or the answers_given column can hold
JNull == [t |-> "null", n |-> 0, s |-> "", l |-> <<>>, o |-> NoDict]
JInt(n) == [t |-> "int", n |-> n, s |-> "", l |-> <<>>, o |-> NoDict]
JStr(s) == [t |-> "str", n |-> 0, s |-> s, l |-> <<>>, o |-> NoDict]
JList(l) == [t |-> "list", n |-> 0, s |-> "", l |-> l, o |-> NoDict]
JDict(o) == [t |-> "dict", n |-> 0, s |-> "", l |-> <<>>, o |-> o]

\* Python truthiness: `not x` is ~Truthy(x)
Truthy(j) ==
    CASE j.t = "null" -> FALSE
      [] j.t = "int" -> j.n # 0
      [] j.t = "str" -> j.s # ""
      [] j.t = "list" -> j.l # <<>>
      [] OTHER -> j.o.keys # {}

Digits == <<"0", "1", "2", "3", "4", "5", "6", "7", "8", "9">>

\* str(n) of a small non-negative int
IntStr(n) == Digits[n + 1]

\* str(question_id) as submit_answer applies it to the request's question_id
PyStr(j) == IF j.t = "int" THEN IntStr(j.n) ELSE j.s

\* dict.get(key) / dict[key] = value on the answers_given mapping
DictHas(d, k) == k \in DOMAIN d
DictSet(d, k, v) == [x \in (DOMAIN d) \cup {k} |-> IF x = k THEN v ELSE d[x]]
DictGet(d, k) == IF k \in DOMAIN d THEN d[k] ELSE JNull

InstanceKey == "_quiz_instance"

(***************************************************************************)
(* json.dumps(..., sort_keys=True), as the sequence of its tokens          *)
(***************************************************************************)
RECURSIVE JoinTokens(_)
JoinTokens(parts) ==
    IF parts = <<>> THEN <<>>
    ELSE IF Len(parts) = 1 THEN parts[1]
    ELSE parts[1] \o <<",">> \o JoinTokens(Tail(parts))

DumpsIntList(l) ==
    <<"[">> \o JoinTokens([i \in 1..Len(l) |-> <<IntStr(l[i])>>]) \o <<"]">>

\* an answer_mapping {new_index: original_index}: int keys become strings
DumpsMapping(m) ==
    <<"{">>
    \o JoinTokens([i \in 1..Len(m) |-> <<"\"" \o IntStr(i - 1) \o "\"", ":", IntStr(m[i])>>])
    \o <<"}">>

DumpsMappingList(ms) ==
    <<"[">> \o JoinTokens([i \in 1..Len(ms) |-> DumpsMapping(ms[i])]) \o <<"]">>

DumpsInstanceData(quiz_id_tok, ids, maps) ==
    <<"{", "\"mappings\"", ":">> \o DumpsMappingList(maps)
    \o <<",", "\"question_ids\"", ":">> \o DumpsIntList(ids)
    \o <<",", "\"quiz_id\"", ":", quiz_id_tok, "}">>

(***************************************************************************)
(* quiz_randomizer.generate_quiz_hash: SHA-256 is taken as collision-free, *)
(* so the digest is identified with the string that is hashed              *)
(***************************************************************************)
generate_quiz_hash_no_order(quiz_instance) ==
    LET qs == IF "questions" \in quiz_instance.keys THEN quiz_instance.questions ELSE <<>>
        idset == {qs[i].question_id : i \in 1..Len(qs)}
        sorted == CHOOSE s \in [1..Cardinality(idset) -> idset] :
                      /\ \A i \in 1..Cardinality(idset) : \A j \in 1..Cardinality(idset) :
                             i < j => s[i] < s[j]
    IN  DumpsInstanceData(
            IF "quiz_id" \in quiz_instance.keys THEN IntStr(quiz_instance.quiz_id) ELSE "null",
            sorted,
            [i \in 1..Len(qs) |-> qs[i].answer_mapping])

generate_quiz_hash(quiz_instance) ==
    LET qs == IF "questions" \in quiz_instance.keys THEN quiz_instance.questions ELSE <<>>
    IN  DumpsInstanceData(
            IF "quiz_id" \in quiz_instance.keys THEN IntStr(quiz_instance.quiz_id) ELSE "null",
            [i \in 1..Len(qs) |-> qs[i].question_id],
            [i \in 1..Len(qs) |-> qs[i].answer_mapping])

(***************************************************************************)
(* Catalog                                                                 *)
(***************************************************************************)
\* quiz.questions (order_by order_index)
QuizQuestions(quiz_id) == SelectSeq(questions, LAMBDA q : q.quiz_id = quiz_id)

QuizExists(quiz_id) == quiz_id \in DOMAIN quizzes

\* the highest id among the rows qs, 0 when there is none
LastId(qs) ==
    IF qs = <<>> THEN 0
    ELSE CHOOSE m \in {qs[i].id : i \in 1..Len(qs)} : \A i \in 1..Len(qs) : qs[i].id <= m

\* Question.correct_answers: indices (from 0) of the options flagged is_correct
correct_answers(question) ==
    {i \in 0..(Len(question.answers) - 1) : question.answers[i + 1]}

(***************************************************************************)
(* quiz_randomizer: selection and shuffling; random choices are sets of    *)
(* possible results                                                        *)
(***************************************************************************)
Injections(k, n) ==
    {f \in [1..k -> 1..n] : \A i \in 1..k : \A j \in 1..k : i # j => f[i] # f[j]}

\* random.sample(population, k), k >= 0
Samples(population, k) ==
    {[i \in 1..k |-> population[f[i]]] : f \in Injections(k, Len(population))}

\* [raised, values]: the exception flag and the possible return values
randomize_question_selection(all_questions, pool_size) ==
    IF pool_size = None \/ pool_size[1] >= Len(all_questions)
    THEN [raised |-> FALSE, values |-> {all_questions}]
    ELSE LET k == Min(pool_size[1], Len(all_questions))
         IN  IF k < 0
             THEN [raised |-> TRUE, values |-> {}]
             ELSE [raised |-> FALSE, values |-> Samples(all_questions, k)]

\* randomize_answer_order recording the first option for every position
randomize_answer_order_collapsed(question) ==
    IF question.answers = <<>>
    THEN {[question_id |-> question.id, shuffled_answers |-> <<>>, answer_mapping |-> <<>>]}
    ELSE {[question_id |-> question.id,
           shuffled_answers |-> [i \in 1..Len(question.answers) |-> question.answers[p[i]]],
           answer_mapping |-> [i \in 1..Len(question.answers) |-> 0]]
          : p \in Injections(Len(question.answers), Len(question.answers))}

\* the possible results of randomize_answer_order(question)
randomize_answer_order(question) ==
    IF question.answers = <<>>
    THEN {[question_id |-> question.id, shuffled_answers |-> <<>>, answer_mapping |-> <<>>]}
    ELSE {[question_id |-> question.id,
           shuffled_answers |-> [i \in 1..Len(question.answers) |-> question.answers[p[i]]],
           answer_mapping |-> [i \in 1..Len(question.answers) |-> p[i] - 1]]
          : p \in Injections(Len(question.answers), Len(question.answers))}

\* the question_data entries generate_quiz_instance can build for one question
QuestionData(question, randomize_answers) ==
    IF randomize_answers
    THEN {[question_id |-> question.id, question_type |-> question.question_type,
           points |-> question.points, answers |-> r.shuffled_answers,
           answer_mapping |-> r.answer_mapping] : r \in randomize_answer_order(question)}
    ELSE {[question_id |-> question.id, question_type |-> question.question_type,
           points |-> question.points, answers |-> question.answers,
           answer_mapping |-> [i \in 1..Len(question.answers) |-> i - 1]]}

RECURSIVE QuestionsData(_, _)
QuestionsData(selected, randomize_answers) ==
    IF selected = <<>> THEN {<<>>}
    ELSE {<<h>> \o t : h \in QuestionData(Head(selected), randomize_answers),
                       t \in QuestionsData(Tail(selected), randomize_answers)}

\* the instance dict built from questions_data, with its quiz_hash
BuildInstance(quiz_id, questions_data) ==
    LET quiz_instance ==
            [keys |-> {"quiz_id", "questions", "question_ids"},
             quiz_id |-> quiz_id,
             questions |-> questions_data,
             question_ids |-> [i \in 1..Len(questions_data) |-> questions_data[i].question_id],
             quiz_hash |-> <<>>]
    IN  [quiz_instance EXCEPT !.keys = @ \cup {"quiz_hash"},
                              !.quiz_hash = generate_quiz_hash(quiz_instance)]

\* generate_quiz_instance building an instance from an empty selection too
generate_quiz_instance_unchecked(quiz_id) ==
    IF ~QuizExists(quiz_id) THEN {[kind |-> "none", inst |-> NoDict]}
    ELSE LET quiz == quizzes[quiz_id]
             sel == randomize_question_selection(QuizQuestions(quiz_id), quiz.question_pool_size)
         IN  IF sel.raised THEN {[kind |-> "raise", inst |-> NoDict]}
             ELSE UNION {
                 {[kind |-> "ok", inst |-> BuildInstance(quiz_id, qd)]
                  : qd \in QuestionsData(selected, quiz.randomize_answers)}
                 : selected \in sel.values}

\* quiz_service.generate_quiz_instance: the possible outcomes, each
\* [kind, inst] with kind "ok" (inst returned), "none" (None returned) or
\* "raise" (the ValueError of random.sample leaves the function)
generate_quiz_instance(quiz_id) ==
    IF ~QuizExists(quiz_id) THEN {[kind |-> "none", inst |-> NoDict]}
    ELSE LET quiz == quizzes[quiz_id]
             sel == randomize_question_selection(QuizQuestions(quiz_id), quiz.question_pool_size)
         IN  IF sel.raised THEN {[kind |-> "raise", inst |-> NoDict]}
             ELSE UNION {
                 IF selected = <<>> THEN {[kind |-> "none", inst |-> NoDict]}
                 ELSE {[kind |-> "ok", inst |-> BuildInstance(quiz_id, qd)]
                       : qd \in QuestionsData(selected, quiz.randomize_answers)}
                 : selected \in sel.values}

(***************************************************************************)
(* quiz_grader                                                             *)
(***************************************************************************)
SeqToSet(l) == {l[i] : i \in 1..Len(l)}

\* single choice graded on the set of selected indices, as Question.check_answer does
grade_single_choice_as_set(question, user_answer) ==
    LET selected == CASE user_answer.t = "int" -> {user_answer.n}
                      [] user_answer.t = "list" -> SeqToSet(user_answer.l)
                      [] OTHER -> {}
        correct == Cardinality(selected) = 1 /\ selected = correct_answers(question)
    IN  [raised |-> FALSE, correct |-> correct,
         points_earned |-> IF correct THEN question.points ELSE 0]

\* [raised, correct, points_earned]; raised: an exception leaves the function
grade_single_choice(question, user_answer) ==
    LET correct ==
            CASE user_answer.t = "int" -> user_answer.n \in correct_answers(question)
              [] user_answer.t = "list" ->
                    Len(user_answer.l) = 1 /\ user_answer.l[1] \in correct_answers(question)
              [] OTHER -> FALSE
        \* a dict of one key has len 1 and then user_answers[0] raises KeyError
        raised == user_answer.t = "dict" /\ Cardinality(user_answer.o.keys) = 1
    IN  [raised |-> raised, correct |-> ~raised /\ correct,
         points_earned |-> IF ~raised /\ correct THEN question.points ELSE 0]

\* multiple choice that accepts every selection within the correct set
grade_multiple_choice_partial(question, user_answers) ==
    LET selected == CASE user_answers.t = "int" -> {user_answers.n}
                      [] user_answers.t = "list" -> SeqToSet(user_answers.l)
                      [] OTHER -> {}
        correct == selected \subseteq correct_answers(question)
    IN  [raised |-> FALSE, correct |-> correct,
         points_earned |-> IF correct THEN question.points ELSE 0]

grade_multiple_choice(question, user_answers) ==
    LET correct ==
            CASE user_answers.t = "int" -> {user_answers.n} = correct_answers(question)
              [] user_answers.t = "list" -> SeqToSet(user_answers.l) = correct_answers(question)
              [] OTHER -> FALSE
        \* set([a dict]) raises TypeError: unhashable
        raised == user_answers.t = "dict"
    IN  [raised |-> raised, correct |-> ~raised /\ correct,
         points_earned |-> IF ~raised /\ correct THEN question.points ELSE 0]

\* the percentage cut off after two decimals instead of rounded
ScorePercentage_truncated(points_earned, total_points) ==
    IF total_points > 0 THEN (points_earned * 10000) \div total_points ELSE 0

\* round(points_earned / total_points * 100, 2), in hundredths of a percent
ScorePercentage(points_earned, total_points) ==
    IF total_points > 0
    THEN LET n == points_earned * 10000
             q == n \div total_points
             r == n % total_points
         IN  IF 2 * r > total_points THEN q + 1
             ELSE IF 2 * r < total_points THEN q
             ELSE IF q % 2 = 0 THEN q ELSE q + 1
    ELSE 0

ZeroScore ==
    [raised |-> FALSE, score_percentage |-> 0, points_earned |-> 0, total_points |-> 0,
     questions_correct |-> 0, total_questions |-> 0]

RECURSIVE ScoreLoop(_, _, _)
ScoreLoop(qs, answers_given, acc) ==
    IF qs = <<>> \/ acc.raised THEN acc
    ELSE LET question == Head(qs)
             user_answer == DictGet(answers_given, IntStr(question.id))
             counted == [acc EXCEPT !.total_points = @ + question.points,
                                    !.total_questions = @ + 1]
             result == IF question.question_type = "single_choice"
                       THEN grade_single_choice(question, user_answer)
                       ELSE grade_multiple_choice(question, user_answer)
         IN  IF user_answer.t = "null" THEN ScoreLoop(Tail(qs), answers_given, counted)
             ELSE IF result.raised THEN [counted EXCEPT !.raised = TRUE]
             ELSE ScoreLoop(Tail(qs), answers_given,
                            [counted EXCEPT !.points_earned = @ + result.points_earned,
                                            !.questions_correct =
                                                IF result.correct THEN @ + 1 ELSE @])

\* calculate_total_score grading every question of the quiz, whatever ids the
\* stored instance holds
calculate_total_score_all_questions(attempt) ==
    IF ~QuizExists(attempt.quiz_id) THEN ZeroScore
    ELSE LET acc == ScoreLoop(QuizQuestions(attempt.quiz_id), attempt.answers_given,
                              ZeroScore)
         IN  [acc EXCEPT !.score_percentage =
                             ScorePercentage(acc.points_earned, acc.total_points)]

calculate_total_score(attempt) ==
    IF ~QuizExists(attempt.quiz_id) THEN ZeroScore
    ELSE LET quiz_instance == IF DictHas(attempt.answers_given, InstanceKey)
                              THEN attempt.answers_given[InstanceKey]
                              ELSE JDict(NoDict)
         IN  \* .get on a value that is no dict raises AttributeError
             IF quiz_instance.t # "dict" THEN [ZeroScore EXCEPT !.raised = TRUE]
             ELSE LET selected_question_ids ==
                          IF "question_ids" \in quiz_instance.o.keys
                          THEN quiz_instance.o.question_ids ELSE <<>>
                      qs == IF selected_question_ids # <<>>
                            THEN SelectSeq(QuizQuestions(attempt.quiz_id),
                                           LAMBDA q : q.id \in SeqToSet(selected_question_ids))
                            ELSE QuizQuestions(attempt.quiz_id)
                      acc == ScoreLoop(qs, attempt.answers_given, ZeroScore)
                  IN  [acc EXCEPT !.score_percentage =
                                      ScorePercentage(acc.points_earned, acc.total_points)]

\* passing only above the threshold
determine_pass_fail_strict(score, minimum_score) == score > minimum_score * 100

\* score in hundredths of a percent, minimum_score in percent
determine_pass_fail(score, minimum_score) == score >= minimum_score * 100

grade_attempt(attempt) ==
    LET score_data == calculate_total_score(attempt)
    IN  [raised |-> score_data.raised,
         score_percentage |-> score_data.score_percentage,
         points_earned |-> score_data.points_earned,
         total_points |-> score_data.total_points,
         passed |-> IF score_data.raised THEN FALSE
                    ELSE determine_pass_fail(score_data.score_percentage,
                                             quizzes[attempt.quiz_id].minimum_score)]

(***************************************************************************)
(* models/quiz_attempt.py and services/quiz_attempt_service.py             *)
(***************************************************************************)
\* QuizAttempt.is_completed
is_completed(attempt) == attempt.completed_at # None

\* QuizAttempt.query.get(attempt_id): None or the row
QueryGet(attempt_id) ==
    IF attempt_id \in 1..Len(attempts) THEN Some(attempts[attempt_id]) ELSE None

\* session.commit() of a row that was loaded as `loaded` and is now `changed`:
\* the UPDATE sets the columns whose value changed, on the row as it is stored
Commit(loaded, changed) ==
    LET stored == attempts[loaded.id]
    IN  [attempts EXCEPT ![loaded.id] =
            [answers_given |-> IF changed.answers_given # loaded.answers_given
                               THEN changed.answers_given ELSE stored.answers_given,
             score |-> IF changed.score # loaded.score THEN changed.score ELSE stored.score,
             passed |-> IF changed.passed # loaded.passed THEN changed.passed ELSE stored.passed,
             completed_at |-> IF changed.completed_at # loaded.completed_at
                              THEN changed.completed_at ELSE stored.completed_at,
             time_taken |-> IF changed.time_taken # loaded.time_taken
                            THEN changed.time_taken ELSE stored.time_taken,
             id |-> stored.id, user_id |-> stored.user_id, quiz_id |-> stored.quiz_id,
             started_at |-> stored.started_at]]

ErrNone == ""
ErrQuizNotFound == "Quiz introuvable."
ErrAttemptNotFound == "Tentative introuvable."
ErrCompleted == "Cette tentative est deja terminee."
ErrInProgress == "Vous avez deja une tentative en cours."
ErrGenerate == "Impossible de generer le quiz"
ErrServer == "500 Internal Server Error"
ErrComplete == "Erreur lors de la finalisation de la tentative"

\* can_retake_quiz without the look at the incomplete attempts
can_retake_quiz_unchecked(user_id, quiz_id) ==
    IF ~QuizExists(quiz_id) THEN ErrQuizNotFound ELSE ErrNone

\* can_retake_quiz: the refusal reason, or ErrNone when a retake is allowed
can_retake_quiz(user_id, quiz_id) ==
    IF ~QuizExists(quiz_id) THEN ErrQuizNotFound
    ELSE LET previous_attempts ==
                 {i \in 1..Len(attempts) :
                      attempts[i].user_id = user_id /\ attempts[i].quiz_id = quiz_id}
             incomplete_attempts == {i \in previous_attempts : ~is_completed(attempts[i])}
         IN  IF incomplete_attempts # {} THEN ErrInProgress ELSE ErrNone

\* start_attempt, lines 33-48: the row that is inserted
NewAttempt(user_id, quiz_id, quiz_instance) ==
    [id |-> Len(attempts) + 1, user_id |-> user_id, quiz_id |-> quiz_id,
     answers_given |->
         (InstanceKey :> JDict([keys |-> {"quiz_id", "question_ids", "quiz_hash"},
                                quiz_id |-> quiz_instance.quiz_id,
                                questions |-> <<>>,
                                question_ids |-> quiz_instance.question_ids,
                                quiz_hash |-> quiz_instance.quiz_hash])),
     score |-> 0, passed |-> FALSE,
     started_at |-> now, completed_at |-> None, time_taken |-> None]

\* start_attempt behind a uniqueness constraint on (user_id, quiz_id, in progress)
start_attempt_if_absent(user_id, quiz_id, quiz_instance) ==
    IF can_retake_quiz(user_id, quiz_id) # ErrNone
    THEN [attempts |-> attempts, err |-> can_retake_quiz(user_id, quiz_id)]
    ELSE [attempts |-> Append(attempts, NewAttempt(user_id, quiz_id, quiz_instance)),
          err |-> ErrNone]

\* start_attempt: [attempts, err], the table after the call and the error message
start_attempt(user_id, quiz_id, quiz_instance) ==
    IF ~QuizExists(quiz_id) THEN [attempts |-> attempts, err |-> ErrQuizNotFound]
    ELSE [attempts |-> Append(attempts, NewAttempt(user_id, quiz_id, quiz_instance)),
          err |-> ErrNone]

\* submit_answer, lines 72-78: the error that ends the call before the try block
submit_answer_guard_unchecked(attempt_id) ==
    IF QueryGet(attempt_id) = None THEN ErrAttemptNotFound ELSE ErrNone

submit_answer_guard(attempt_id) ==
    IF QueryGet(attempt_id) = None THEN ErrAttemptNotFound
    ELSE IF is_completed(QueryGet(attempt_id)[1]) THEN ErrCompleted
    ELSE ErrNone

\* submit_answer storing a mapping that holds the new answer only
submit_answer_update_fresh(attempt, question_id, answer) ==
    [attempt EXCEPT !.answers_given = (PyStr(question_id) :> answer)]

\* submit_answer, lines 82-86: the loaded row with the new answers_given
submit_answer_update(attempt, question_id, answer) ==
    [attempt EXCEPT !.answers_given = DictSet(@, PyStr(question_id), answer)]

\* submit_answer as one transaction: [attempts, err]
submit_answer(attempt_id, question_id, answer) ==
    IF submit_answer_guard(attempt_id) # ErrNone
    THEN [attempts |-> attempts, err |-> submit_answer_guard(attempt_id)]
    ELSE LET attempt == QueryGet(attempt_id)[1]
         IN  [attempts |-> Commit(attempt, submit_answer_update(attempt, question_id, answer)),
              err |-> ErrNone]

\* complete_attempt, lines 109-115
complete_attempt_guard_unchecked(attempt_id) ==
    IF QueryGet(attempt_id) = None THEN ErrAttemptNotFound ELSE ErrNone

complete_attempt_guard(attempt_id) ==
    IF QueryGet(attempt_id) = None THEN ErrAttemptNotFound
    ELSE IF is_completed(QueryGet(attempt_id)[1]) THEN ErrCompleted
    ELSE ErrNone

\* complete_attempt, lines 117-131: [raised, attempt], the loaded row as the
\* try block leaves it; raised: grading raised, the except branch rolls back
\* complete_attempt storing the score and the passed flag without the
\* completion timestamp and the elapsed time
complete_attempt_update_untimed(attempt) ==
    LET grading_result == grade_attempt(attempt)
    IN  [raised |-> grading_result.raised,
         attempt |-> [attempt EXCEPT !.score = grading_result.score_percentage,
                                     !.passed = grading_result.passed]]

complete_attempt_update(attempt) ==
    LET timed == [attempt EXCEPT !.completed_at = Some(now),
                                 !.time_taken = Some(now - attempt.started_at)]
        grading_result == grade_attempt(timed)
    IN  [raised |-> grading_result.raised,
         attempt |-> [timed EXCEPT !.score = grading_result.score_percentage,
                                   !.passed = grading_result.passed]]

\* complete_attempt that commits the timestamps before it grades
complete_attempt_two_commits(attempt_id) ==
    IF complete_attempt_guard(attempt_id) # ErrNone
    THEN [attempts |-> attempts, err |-> complete_attempt_guard(attempt_id)]
    ELSE LET attempt == QueryGet(attempt_id)[1]
             done == complete_attempt_update(attempt)
         IN  IF done.raised
             THEN [attempts |-> Commit(attempt, [attempt EXCEPT
                                                    !.completed_at = done.attempt.completed_at,
                                                    !.time_taken = done.attempt.time_taken]),
                   err |-> ErrComplete]
             ELSE [attempts |-> Commit(attempt, done.attempt), err |-> ErrNone]

\* complete_attempt as one transaction: [attempts, err]
complete_attempt(attempt_id) ==
    IF complete_attempt_guard(attempt_id) # ErrNone
    THEN [attempts |-> attempts, err |-> complete_attempt_guard(attempt_id)]
    ELSE LET attempt == QueryGet(attempt_id)[1]
             done == complete_attempt_update(attempt)
         IN  IF done.raised THEN [attempts |-> attempts, err |-> ErrComplete]
             ELSE [attempts |-> Commit(attempt, done.attempt), err |-> ErrNone]

(***************************************************************************)
(* quiz_grader.generate_feedback and get_attempt_results                   *)
(***************************************************************************)
\* generate_feedback, lines 181-224: the feedback entry of one question
QuestionFeedback(question, answers_given) ==
    LET user_answer == DictGet(answers_given, IntStr(question.id))
        result == IF user_answer.t = "null"
                  THEN [raised |-> FALSE, correct |-> FALSE, points_earned |-> 0]
                  ELSE IF question.question_type = "single_choice"
                  THEN grade_single_choice(question, user_answer)
                  ELSE grade_multiple_choice(question, user_answer)
    IN  [raised |-> result.raised, question_id |-> question.id, correct |-> result.correct,
         points_earned |-> result.points_earned, points_possible |-> question.points,
         correct_answers |-> correct_answers(question)]

\* [raised, overall, questions]
generate_feedback(attempt) ==
    LET score_data == calculate_total_score(attempt)
        quiz_instance == IF DictHas(attempt.answers_given, InstanceKey)
                         THEN attempt.answers_given[InstanceKey]
                         ELSE JDict(NoDict)
        selected_question_ids ==
            IF quiz_instance.t = "dict" /\ "question_ids" \in quiz_instance.o.keys
            THEN quiz_instance.o.question_ids ELSE <<>>
        qs == IF selected_question_ids # <<>>
              THEN SelectSeq(QuizQuestions(attempt.quiz_id),
                             LAMBDA q : q.id \in SeqToSet(selected_question_ids))
              ELSE QuizQuestions(attempt.quiz_id)
        questions_feedback == [i \in 1..Len(qs) |-> QuestionFeedback(qs[i], attempt.answers_given)]
    IN  [raised |-> \/ score_data.raised
                    \/ \E i \in 1..Len(qs) : questions_feedback[i].raised,
         overall |-> [score_percentage |-> score_data.score_percentage,
                      points_earned |-> score_data.points_earned,
                      total_points |-> score_data.total_points,
                      passed |-> determine_pass_fail(score_data.score_percentage,
                                                     quizzes[attempt.quiz_id].minimum_score)],
         questions |-> questions_feedback]

ErrNotCompleted == "Tentative non terminee"

\* get_attempt_results that hands out the feedback of any attempt
get_attempt_results_unchecked(attempt_id) ==
    IF QueryGet(attempt_id) = None
    THEN [kind |-> "none", error |-> ErrNone, feedback |-> None]
    ELSE [kind |-> "results", error |-> ErrNone,
          feedback |-> Some(generate_feedback(QueryGet(attempt_id)[1]))]

\* get_attempt_results: [kind, error, feedback]; kind "none" (None returned),
\* "error" (the dict with 'error' and 'feedback': None) or "results"
get_attempt_results(attempt_id) ==
    IF QueryGet(attempt_id) = None
    THEN [kind |-> "none", error |-> ErrNone, feedback |-> None]
    ELSE IF ~is_completed(QueryGet(attempt_id)[1])
    THEN [kind |-> "error", error |-> ErrNotCompleted, feedback |-> None]
    ELSE [kind |-> "results", error |-> ErrNone,
          feedback |-> Some(generate_feedback(QueryGet(attempt_id)[1]))]

(***************************************************************************)
(* quiz_randomizer.validate_quiz_integrity: [raised, ok]                   *)
(***************************************************************************)
validate_quiz_integrity(attempt, quiz_hash) ==
    IF quiz_hash = <<>> THEN [raised |-> FALSE, ok |-> FALSE]
    ELSE LET quiz_instance == DictGet(attempt.answers_given, InstanceKey)
         IN  IF ~Truthy(quiz_instance) THEN [raised |-> FALSE, ok |-> TRUE]
             \* generate_quiz_hash calls .get on the stored value
             ELSE IF quiz_instance.t # "dict" THEN [raised |-> TRUE, ok |-> FALSE]
             ELSE [raised |-> FALSE, ok |-> generate_quiz_hash(quiz_instance.o) = quiz_hash]

(***************************************************************************)
(* Requests handled one at a time                                          *)
(***************************************************************************)
NoResp == [op |-> "", err |-> ErrNone, ok |-> FALSE, value |-> NoDict]

\* the catalog of the attempt specifications: one quiz of two questions
Catalog ==
    <<[id |-> 1, quiz_id |-> QuizId, question_type |-> "single_choice",
       answers |-> <<TRUE, FALSE>>, points |-> 1],
      [id |-> 2, quiz_id |-> QuizId, question_type |-> "multiple_choice",
       answers |-> <<TRUE, FALSE>>, points |-> 1]>>

\* minimum_score 50: one of the two questions answered correctly passes
QuizRow == [question_pool_size |-> None, minimum_score |-> 50, randomize_answers |-> FALSE]

QuestionIdInputs == {JInt(1)}
AnswerInputs == {JInt(0)}
AttemptIdInputs == 1..(MaxAttempts + 1)

InitWith(quiz) ==
    /\ quizzes = (QuizId :> quiz)
    /\ questions = Catalog
    /\ attempts = <<>>
    /\ now = 0
    /\ resp = NoResp
    /\ issued = <<>>
    /\ sessions = <<>>
    /\ progress = <<>>
    /\ question_id_seq = LastId(questions)
    /\ hashed = <<>>

Init == InitWith(QuizRow)

Tick ==
    /\ now < MaxTime
    /\ now' = now + 1
    /\ UNCHANGED <<quizzes, questions, attempts, resp, issued, sessions, hashed, progress, question_id_seq>>

\* routes/quiz.py start_quiz_attempt
StartQuizAttempt(user_id, quiz_id) ==
    /\ UNCHANGED <<quizzes, questions, now, sessions, hashed, progress, question_id_seq>>
    /\ IF ~QuizExists(quiz_id)
       THEN /\ resp' = [NoResp EXCEPT !.op = "start", !.err = ErrQuizNotFound]
            /\ UNCHANGED <<attempts, issued>>
       ELSE IF can_retake_quiz(user_id, quiz_id) # ErrNone
       THEN /\ resp' = [NoResp EXCEPT !.op = "start", !.err = can_retake_quiz(user_id, quiz_id)]
            /\ UNCHANGED <<attempts, issued>>
       ELSE \E out \in generate_quiz_instance(quiz_id) :
                CASE out.kind = "raise" ->
                        /\ resp' = [NoResp EXCEPT !.op = "start", !.err = ErrServer]
                        /\ UNCHANGED <<attempts, issued>>
                  [] out.kind = "none" ->
                        /\ resp' = [NoResp EXCEPT !.op = "start", !.err = ErrGenerate]
                        /\ UNCHANGED <<attempts, issued>>
                  [] OTHER ->
                        /\ Len(attempts) < MaxAttempts
                        /\ attempts' = start_attempt(user_id, quiz_id, out.inst).attempts
                        /\ issued' = Append(issued, out.inst)
                        /\ resp' = [NoResp EXCEPT
                                        !.op = "start",
                                        !.err = start_attempt(user_id, quiz_id, out.inst).err]

\* a request that reaches quiz_attempt_service.submit_answer
SubmitAnswer(attempt_id, question_id, answer) ==
    /\ LET done == submit_answer(attempt_id, question_id, answer)
       IN  /\ attempts' = done.attempts
           /\ resp' = [NoResp EXCEPT !.op = "submit", !.err = done.err]
    /\ UNCHANGED <<quizzes, questions, now, issued, sessions, hashed, progress, question_id_seq>>

\* a request that reaches quiz_attempt_service.complete_attempt
CompleteAttempt(attempt_id) ==
    /\ LET done == complete_attempt(attempt_id)
       IN  /\ attempts' = done.attempts
           /\ resp' = [NoResp EXCEPT !.op = "complete", !.err = done.err]
    /\ UNCHANGED <<quizzes, questions, now, issued, sessions, hashed, progress, question_id_seq>>

Next ==
    \/ Tick
    \/ \E u \in Users : \E q \in {QuizId, NoQuizId} : StartQuizAttempt(u, q)
    \/ \E a \in AttemptIdInputs : \E qid \in QuestionIdInputs : \E ans \in AnswerInputs :
           SubmitAnswer(a, qid, ans)
    \/ \E a \in AttemptIdInputs : CompleteAttempt(a)

Spec == Init /\ [][Next]_vars

(***************************************************************************)
(* Properties of the attempt lifecycle, requests handled one at a time     *)
(***************************************************************************)
InProgress(user_id, quiz_id) ==
    {i \in 1..Len(attempts) :
         /\ attempts[i].user_id = user_id
         /\ attempts[i].quiz_id = quiz_id
         /\ ~is_completed(attempts[i])}

\* C1: a start request for a (learner, quiz) pair that has an attempt without
\* completion timestamp is rejected and creates no record, and every pair has
\* at most one InProgress attempt
C1_StartRejectedWhileInProgress ==
    [][/\ \A u \in Users :
              (InProgress(u, QuizId) # {} /\ StartQuizAttempt(u, QuizId))
                  => (attempts' = attempts /\ resp'.err = ErrInProgress)
       /\ \A u \in Users : Cardinality(InProgress(u, QuizId)') <= 1]_vars

\* a start was rejected for an attempt in progress, after an earlier attempt
\* of the same learner was completed
C1_Witness ==
    /\ resp.op = "start"
    /\ resp.err = ErrInProgress
    /\ \E i \in 1..Len(attempts) : \E j \in 1..Len(attempts) :
           /\ attempts[i].user_id = attempts[j].user_id
           /\ is_completed(attempts[i])
           /\ ~is_completed(attempts[j])

\* C2: completeAttempt on a Completed attempt returns an error and leaves the
\* stored record (score, passed, completed_at, time_taken) as it was
C2_CompleteSingleShot ==
    [][\A a \in 1..Len(attempts) :
           (is_completed(attempts[a]) /\ CompleteAttempt(a))
               => (resp'.err = ErrCompleted /\ attempts' = attempts)]_vars

\* a second completion was refused at a later time than the first, on an
\* attempt with a non-zero score
C2_Witness ==
    /\ resp.op = "complete"
    /\ resp.err = ErrCompleted
    /\ \E a \in 1..Len(attempts) :
           /\ is_completed(attempts[a])
           /\ attempts[a].completed_at[1] < now
           /\ attempts[a].passed

\* C3: submitAnswer on a Completed attempt is rejected with an error and the
\* record, its answer map included, is unchanged
C3_SubmitAfterCompletionRejected ==
    [][\A a \in 1..Len(attempts) : \A qid \in QuestionIdInputs : \A ans \in AnswerInputs :
           (is_completed(attempts[a]) /\ SubmitAnswer(a, qid, ans))
               => (resp'.err = ErrCompleted /\ attempts' = attempts)]_vars

\* a submission was refused on a Completed attempt that lacks an answer
C3_Witness ==
    /\ resp.op = "submit"
    /\ resp.err = ErrCompleted
    /\ \E a \in 1..Len(attempts) :
           /\ is_completed(attempts[a])
           /\ ~DictHas(attempts[a].answers_given, "1")

\* C14: the passed flag of a Completed attempt is true exactly when its
\* stored score is >= the quiz's minimum_score, equality included
C14_PassedIffScoreReachesMinimum ==
    \A a \in 1..Len(attempts) :
        is_completed(attempts[a])
            => (attempts[a].passed
                    <=> attempts[a].score >= quizzes[attempts[a].quiz_id].minimum_score * 100)

\* one attempt completed with the score equal to minimum_score and passed,
\* another completed below it and not passed
C14_Witness ==
    /\ resp.op = "complete"
    /\ \E a \in 1..Len(attempts) : \E b \in 1..Len(attempts) :
           /\ is_completed(attempts[a])
           /\ attempts[a].score = quizzes[attempts[a].quiz_id].minimum_score * 100
           /\ attempts[a].passed
           /\ is_completed(attempts[b])
           /\ attempts[b].score < quizzes[attempts[b].quiz_id].minimum_score * 100
           /\ ~attempts[b].passed

\* C27: start_attempt inserts a row without completion timestamp, with score
\* 0, passed false, no elapsed time and no answer beside the stored instance;
\* in every state a row without completion timestamp has score 0, passed
\* false and no elapsed time, and a row with passed true or a score other than
\* 0 has a completion timestamp and an elapsed time
C27_InProgressIsUngraded ==
    /\ [][\A u \in Users :
              (Len(attempts) < MaxAttempts /\ StartQuizAttempt(u, QuizId)
                   /\ resp'.err = ErrNone)
                  => /\ Len(attempts') = Len(attempts) + 1
                     /\ attempts'[Len(attempts) + 1].user_id = u
                     /\ attempts'[Len(attempts) + 1].completed_at = None
                     /\ attempts'[Len(attempts) + 1].time_taken = None
                     /\ attempts'[Len(attempts) + 1].score = 0
                     /\ ~attempts'[Len(attempts) + 1].passed
                     /\ attempts'[Len(attempts) + 1].started_at = now
                     /\ DOMAIN attempts'[Len(attempts) + 1].answers_given = {InstanceKey}]_vars
    /\ [](\A a \in 1..Len(attempts) :
              /\ ~is_completed(attempts[a])
                     => /\ attempts[a].score = 0
                        /\ ~attempts[a].passed
                        /\ attempts[a].time_taken = None
              /\ (attempts[a].passed \/ attempts[a].score # 0)
                     => /\ attempts[a].completed_at # None
                        /\ attempts[a].time_taken # None)

\* an attempt just started, in progress and ungraded, beside a Completed
\* attempt that passed after some time
C27_Witness ==
    /\ Len(attempts) = 2
    /\ resp.op = "start"
    /\ resp.err = ErrNone
    /\ ~is_completed(attempts[2])
    /\ attempts[2].score = 0
    /\ is_completed(attempts[1])
    /\ attempts[1].passed
    /\ attempts[1].time_taken # None
    /\ attempts[1].time_taken[1] > 0

(***************************************************************************)
(* One attempt, with everything a client can send to submit_answer         *)
(***************************************************************************)
\* the value start_attempt stores under '_quiz_instance' for an instance
StoredInstance(quiz_instance) ==
    JDict([keys |-> {"quiz_id", "question_ids", "quiz_hash"},
           quiz_id |-> quiz_instance.quiz_id,
           questions |-> <<>>,
           question_ids |-> quiz_instance.question_ids,
           quiz_hash |-> quiz_instance.quiz_hash])

\* the stored instance with other question ids: one changed, added, removed, reordered
WithQuestionIds(quiz_instance, ids) ==
    JDict([StoredInstance(quiz_instance).o EXCEPT !.question_ids = ids])

TamperedInstances(quiz_instance) ==
    {WithQuestionIds(quiz_instance, ids) : ids \in {<<1, 3>>, <<1, 2, 3>>, <<1>>, <<2, 1>>}}
    \cup {JDict(NoDict), JNull}

QuizRowRandomized ==
    [question_pool_size |-> None, minimum_score |-> 50, randomize_answers |-> TRUE]

InitOne == InitWith(QuizRowRandomized)

\* a caller of validate_quiz_integrity with the fingerprint generated at start
ValidateQuizIntegrity(attempt_id) ==
    /\ attempt_id \in 1..Len(attempts)
    /\ resp' = [NoResp EXCEPT
                    !.op = "validate",
                    !.err = IF validate_quiz_integrity(attempts[attempt_id],
                                                       issued[attempt_id].quiz_hash).raised
                            THEN ErrServer ELSE ErrNone,
                    !.ok = validate_quiz_integrity(attempts[attempt_id],
                                                   issued[attempt_id].quiz_hash).ok]
    /\ UNCHANGED <<quizzes, questions, attempts, now, issued, sessions, hashed, progress, question_id_seq>>

OneSubmitInputs ==
    ({JInt(1), JInt(2)} \X {JInt(0), JList(<<0, 1>>)})
    \cup (IF issued = <<>> THEN {}
          ELSE {JStr(InstanceKey)} \X (TamperedInstances(issued[1]) \cup {JInt(0)}))

\* a caller of get_attempt_results; an exception of generate_feedback leaves it
GetAttemptResults(attempt_id) ==
    /\ LET results == get_attempt_results(attempt_id)
       IN  resp' = [op |-> "results",
                    err |-> IF results.feedback # None /\ results.feedback[1].raised
                            THEN ErrServer ELSE results.error,
                    ok |-> results.feedback # None /\ ~results.feedback[1].raised,
                    value |-> results]
    /\ UNCHANGED <<quizzes, questions, attempts, now, issued, sessions, hashed, progress, question_id_seq>>

\* complete_attempt whose db.session.commit() raises: lines 135-139, the
\* except branch rolls the transaction back and returns the error
CompleteAttemptCommitFails(attempt_id) ==
    /\ complete_attempt_guard(attempt_id) = ErrNone
    /\ ~complete_attempt_update(QueryGet(attempt_id)[1]).raised
    /\ attempts' = attempts
    /\ resp' = [NoResp EXCEPT !.op = "complete", !.err = ErrComplete]
    /\ UNCHANGED <<quizzes, questions, now, issued, sessions, hashed, progress, question_id_seq>>

NextOne ==
    \/ attempts = <<>> /\ StartQuizAttempt(1, QuizId)
    \/ \E in \in OneSubmitInputs : SubmitAnswer(1, in[1], in[2])
    \/ CompleteAttempt(1)
    \/ CompleteAttemptCommitFails(1)
    \/ ValidateQuizIntegrity(1)
    \/ \E a \in AttemptIdInputs : GetAttemptResults(a)

SpecOne == InitOne /\ [][NextOne]_vars

\* C6: an accepted submitAnswer leaves the embedded instance, the score, the
\* passed flag and the timestamps of the attempt unchanged, whatever question
\* id is sent
C6_SubmitChangesOnlyItsEntry ==
    [][\A in \in OneSubmitInputs :
           (SubmitAnswer(1, in[1], in[2]) /\ resp'.err = ErrNone)
               => /\ DictGet(attempts'[1].answers_given, InstanceKey)
                        = DictGet(attempts[1].answers_given, InstanceKey)
                  /\ attempts'[1].score = attempts[1].score
                  /\ attempts'[1].passed = attempts[1].passed
                  /\ attempts'[1].started_at = attempts[1].started_at
                  /\ attempts'[1].completed_at = attempts[1].completed_at
                  /\ attempts'[1].time_taken = attempts[1].time_taken]_vars

\* C8: for an attempt whose stored instance is as start_attempt wrote it,
\* validate_quiz_integrity with the stored quiz_hash returns true
C8_UnmodifiedAttemptValidates ==
    (/\ resp.op = "validate"
     /\ DictGet(attempts[1].answers_given, InstanceKey) = StoredInstance(issued[1]))
        => resp.ok

\* C9: for an attempt whose stored instance differs from the one generated at
\* start, validate_quiz_integrity with the fingerprint generated at start
\* returns false
C9_TamperingDetected ==
    (/\ resp.op = "validate"
     /\ DictGet(attempts[1].answers_given, InstanceKey) # StoredInstance(issued[1]))
        => ~resp.ok

(***************************************************************************)
(* Overlapping requests: each request reads in one step and commits in a   *)
(* later one, other requests running in between. resp keeps the outcome of *)
(* the start requests only, and the clock stands still.                    *)
(***************************************************************************)
\* C17: get_attempt_results on an InProgress attempt returns an error outcome
\* without feedback, on an unknown attempt id it returns not-found, and in
\* both cases it changes nothing
C17_ResultsOnlyWhenCompleted ==
    [][\A a \in AttemptIdInputs :
           GetAttemptResults(a)
               => /\ attempts' = attempts
                  /\ QueryGet(a) = None
                         => (resp'.value.kind = "none" /\ resp'.value.feedback = None)
                  /\ (QueryGet(a) # None /\ ~is_completed(QueryGet(a)[1]))
                         => /\ resp'.value.kind = "error"
                            /\ resp'.value.error = ErrNotCompleted
                            /\ resp'.value.feedback = None
                            /\ ~resp'.ok]_vars

\* the results of an InProgress attempt that holds an answer were asked for
\* and refused
C17_Witness ==
    /\ resp.op = "results"
    /\ resp.value.kind = "error"
    /\ Len(attempts) = 1
    /\ ~is_completed(attempts[1])
    /\ DictHas(attempts[1].answers_given, "1")

\* the stored row holds a completion timestamp together with the score and
\* the passed flag that grading its answers gives
HoldsGradedPair(attempt) ==
    /\ attempt.completed_at # None
    /\ attempt.time_taken # None
    /\ ~grade_attempt(attempt).raised
    /\ attempt.score = grade_attempt(attempt).score_percentage
    /\ attempt.passed = grade_attempt(attempt).passed

\* the stored row is as start_attempt created it, apart from the answers
StillInProgress(attempt) ==
    /\ attempt.completed_at = None
    /\ attempt.time_taken = None
    /\ attempt.score = 0
    /\ ~attempt.passed

\* C19: when grading or the commit fails inside complete_attempt an error is
\* returned and the stored attempt is as before the call, InProgress; every
\* stored row is either InProgress or holds timestamp, score and passed of
\* one grading
C19_FailedCompletionLeavesNoTrace ==
    /\ [][((CompleteAttempt(1) \/ CompleteAttemptCommitFails(1))
              /\ QueryGet(1) # None /\ ~is_completed(attempts[1]) /\ resp'.err # ErrNone)
             => (attempts' = attempts /\ StillInProgress(attempts'[1]))]_vars
    /\ [](\A a \in 1..Len(attempts) :
              StillInProgress(attempts[a]) \/ HoldsGradedPair(attempts[a]))

\* a completion failed in grading (the stored instance is no dict) and the
\* attempt, which holds an answer, is still InProgress
C19_Witness ==
    /\ resp.op = "complete"
    /\ resp.err = ErrComplete
    /\ Len(attempts) = 1
    /\ grade_attempt(attempts[1]).raised
    /\ DictHas(attempts[1].answers_given, "1")
    /\ StillInProgress(attempts[1])

MaxRequests == 2

NoRow ==
    [id |-> 0, user_id |-> 0, quiz_id |-> 0, answers_given |-> <<>>, score |-> 0,
     passed |-> FALSE, started_at |-> 0, completed_at |-> None, time_taken |-> None]

Idle ==
    [kind |-> "idle", user_id |-> 0, quiz_id |-> 0, question_id |-> JNull, answer |-> JNull,
     loaded |-> NoRow, inst |-> NoDict]

ConcUser == 1

\* a new request takes the first free slot
FreeSlot(r) == sessions[r].kind = "idle" /\ \A x \in 1..(r - 1) : sessions[x].kind # "idle"

InitConc ==
    /\ quizzes = (QuizId :> QuizRow)
    /\ questions = Catalog
    /\ attempts = <<>>
    /\ now = 0
    /\ resp = NoResp
    /\ issued = <<>>
    /\ sessions = [r \in 1..MaxRequests |-> Idle]
    /\ progress = <<>>
    /\ question_id_seq = LastId(questions)
    /\ hashed = <<>>

\* start_quiz_attempt up to the call of start_attempt: the quiz lookup, the
\* can_retake_quiz check and generate_quiz_instance
StartCheck(r, user_id, quiz_id) ==
    /\ FreeSlot(r)
    /\ QuizExists(quiz_id)
    /\ UNCHANGED <<quizzes, questions, attempts, now, issued, hashed, progress, question_id_seq>>
    /\ IF can_retake_quiz(user_id, quiz_id) # ErrNone
       THEN /\ resp' = [NoResp EXCEPT !.op = "start", !.err = can_retake_quiz(user_id, quiz_id)]
            /\ UNCHANGED sessions
       ELSE \E out \in generate_quiz_instance(quiz_id) :
                /\ out.kind = "ok"
                /\ sessions' = [sessions EXCEPT ![r] =
                                    [Idle EXCEPT !.kind = "start", !.user_id = user_id,
                                                 !.quiz_id = quiz_id, !.inst = out.inst]]
                /\ UNCHANGED resp

\* start_attempt called by the request: the INSERT and its commit
StartInsert(r) ==
    /\ sessions[r].kind = "start"
    /\ Len(attempts) < MaxAttempts
    /\ attempts' = start_attempt(sessions[r].user_id, sessions[r].quiz_id,
                                 sessions[r].inst).attempts
    /\ issued' = IF Len(attempts') > Len(attempts) THEN Append(issued, sessions[r].inst)
                 ELSE issued
    /\ resp' = [NoResp EXCEPT !.op = "start",
                              !.err = start_attempt(sessions[r].user_id, sessions[r].quiz_id,
                                                    sessions[r].inst).err]
    /\ sessions' = [sessions EXCEPT ![r] = Idle]
    /\ UNCHANGED <<quizzes, questions, now, hashed, progress, question_id_seq>>

\* submit_answer, lines 72-78: the row is loaded and checked
SubmitRead(r, attempt_id, question_id, answer) ==
    /\ FreeSlot(r)
    /\ UNCHANGED <<quizzes, questions, attempts, now, resp, issued, hashed, progress, question_id_seq>>
    /\ IF submit_answer_guard(attempt_id) # ErrNone
       THEN UNCHANGED sessions
       ELSE sessions' = [sessions EXCEPT ![r] =
                            [Idle EXCEPT !.kind = "submit", !.question_id = question_id,
                                         !.answer = answer,
                                         !.loaded = QueryGet(attempt_id)[1]]]

\* submit_answer, lines 80-92: the loaded row gets the new mapping and is committed
SubmitWrite(r) ==
    /\ sessions[r].kind = "submit"
    /\ attempts' = Commit(sessions[r].loaded,
                          submit_answer_update(sessions[r].loaded, sessions[r].question_id,
                                               sessions[r].answer))
    /\ sessions' = [sessions EXCEPT ![r] = Idle]
    /\ UNCHANGED <<quizzes, questions, now, resp, issued, hashed, progress, question_id_seq>>

\* complete_attempt, lines 109-115
CompleteRead(r, attempt_id) ==
    /\ FreeSlot(r)
    /\ UNCHANGED <<quizzes, questions, attempts, now, resp, issued, hashed, progress, question_id_seq>>
    /\ IF complete_attempt_guard(attempt_id) # ErrNone
       THEN UNCHANGED sessions
       ELSE sessions' = [sessions EXCEPT ![r] =
                            [Idle EXCEPT !.kind = "complete",
                                         !.loaded = QueryGet(attempt_id)[1]]]

\* complete_attempt, lines 117-139: the loaded row is graded and committed
CompleteWrite(r) ==
    /\ sessions[r].kind = "complete"
    /\ LET done == complete_attempt_update(sessions[r].loaded)
       IN  IF done.raised
           THEN UNCHANGED attempts
           ELSE attempts' = Commit(sessions[r].loaded, done.attempt)
    /\ sessions' = [sessions EXCEPT ![r] = Idle]
    /\ UNCHANGED <<quizzes, questions, now, resp, issued, hashed, progress, question_id_seq>>

NextConc ==
    \/ \E r \in 1..MaxRequests : StartCheck(r, ConcUser, QuizId)
    \/ \E r \in 1..MaxRequests : StartInsert(r)
    \/ \E r \in 1..MaxRequests : \E a \in 1..MaxAttempts :
           \E qid \in QuestionIdInputs : \E ans \in AnswerInputs : SubmitRead(r, a, qid, ans)
    \/ \E r \in 1..MaxRequests : SubmitWrite(r)
    \/ \E r \in 1..MaxRequests : \E a \in 1..MaxAttempts : CompleteRead(r, a)
    \/ \E r \in 1..MaxRequests : CompleteWrite(r)

SpecConc == InitConc /\ [][NextConc]_vars

\* C4: once an attempt is stored as Completed, its answer map, score, passed
\* flag, completion timestamp and elapsed time never change again
C4_CompletedIsFrozen ==
    [][\A a \in 1..Len(attempts) :
           is_completed(attempts[a]) => attempts'[a] = attempts[a]]_vars

\* C5: the insert of a start request that passed the no-InProgress check is
\* unconditional: it adds an InProgress attempt of its (learner, quiz) pair
\* whatever the table holds by then
C5_InsertIsUnconditional ==
    [][\A r \in 1..MaxRequests :
           (sessions[r].kind = "start" /\ sessions'[r].kind = "idle")
               => /\ Len(attempts') = Len(attempts) + 1
                  /\ attempts'[Len(attempts')].user_id = sessions[r].user_id
                  /\ attempts'[Len(attempts')].quiz_id = sessions[r].quiz_id
                  /\ ~is_completed(attempts'[Len(attempts')])
                  /\ resp'.err = ErrNone]_vars

\* two overlapping start requests left two InProgress attempts of one pair
C5_Witness ==
    /\ Cardinality(InProgress(ConcUser, QuizId)) >= 2
    /\ resp.op = "start"
    /\ resp.err = ErrNone

(***************************************************************************)
(* generate_quiz_instance over a range of catalogs                         *)
(***************************************************************************)
PoolSizes == {None} \cup {Some(k) : k \in (-1)..(MaxQuestions + 1)}

\* n questions of the quiz, ids descending in catalog order, c options each,
\* and one question of another quiz
GenCatalog(n, c) ==
    [i \in 1..n |-> [id |-> n + 1 - i, quiz_id |-> QuizId, question_type |-> "single_choice",
                     answers |-> [j \in 1..c |-> j = 1], points |-> 1]]
    \o <<[id |-> n + 1, quiz_id |-> OtherQuizId, question_type |-> "single_choice",
          answers |-> <<TRUE>>, points |-> 1]>>

InitGen ==
    /\ \E pool \in PoolSizes : \E rnd \in BOOLEAN :
           quizzes = (QuizId :> [question_pool_size |-> pool, minimum_score |-> 70,
                                 randomize_answers |-> rnd])
                     @@ (OtherQuizId :> QuizRow)
    /\ \E n \in 0..MaxQuestions : \E c \in 0..MaxOptions : questions = GenCatalog(n, c)
    /\ attempts = <<>>
    /\ now = 0
    /\ resp = NoResp
    /\ issued = <<>>
    /\ sessions = <<>>
    /\ progress = <<>>
    /\ question_id_seq = LastId(questions)
    /\ hashed = <<>>

\* a call of quiz_service.generate_quiz_instance
GenerateQuizInstance(quiz_id) ==
    /\ \E out \in generate_quiz_instance(quiz_id) :
           resp' = [NoResp EXCEPT !.op = "generate",
                                  !.err = CASE out.kind = "raise" -> ErrServer
                                            [] out.kind = "none" -> ErrGenerate
                                            [] OTHER -> ErrNone,
                                  !.value = out.inst]
    /\ UNCHANGED <<quizzes, questions, attempts, now, issued, sessions, hashed, progress, question_id_seq>>

NextGen == GenerateQuizInstance(QuizId)

SpecGen == InitGen /\ [][NextGen]_vars

CatalogIds(quiz_id) ==
    [i \in 1..Len(QuizQuestions(quiz_id)) |-> QuizQuestions(quiz_id)[i].id]

\* C7: for a quiz with at least one question, generate_quiz_instance returns
\* an instance with min(pool size, total) question ids when the pool size is
\* set and positive and total ids otherwise, without duplicates, all of them
\* ids of the quiz, and the whole catalog in order when the pool size is unset
\* or >= total
C7_InstanceSelection ==
    (resp.op = "generate" /\ Len(QuizQuestions(QuizId)) >= 1)
        => LET total == Len(QuizQuestions(QuizId))
               pool == quizzes[QuizId].question_pool_size
               ids == resp.value.question_ids
           IN  /\ resp.err = ErrNone
               /\ Len(ids) = IF pool # None /\ pool[1] > 0 THEN Min(pool[1], total) ELSE total
               /\ \A i \in 1..Len(ids) : \A j \in 1..Len(ids) : i # j => ids[i] # ids[j]
               /\ SeqToSet(ids) \subseteq SeqToSet(CatalogIds(QuizId))
               /\ (pool = None \/ pool[1] >= total) => ids = CatalogIds(QuizId)

\* C23: for a quiz with a pool size of zero or below, generate_quiz_instance
\* returns an instance with all the questions of the quiz in catalog order,
\* as it does for a quiz without pool size
C23_NonPositivePoolUsesAll ==
    (/\ resp.op = "generate"
     /\ quizzes[QuizId].question_pool_size # None
     /\ quizzes[QuizId].question_pool_size[1] <= 0
     /\ Len(QuizQuestions(QuizId)) >= 1)
        => /\ resp.err = ErrNone
           /\ resp.value.question_ids = CatalogIds(QuizId)

\* start requests on a quiz without questions or with one question, every
\* pool size
InitStart ==
    /\ \E pool \in PoolSizes : \E rnd \in BOOLEAN :
           quizzes = (QuizId :> [question_pool_size |-> pool, minimum_score |-> 70,
                                 randomize_answers |-> rnd])
                     @@ (OtherQuizId :> QuizRow)
    /\ \E n \in 0..1 : \E c \in 0..MaxOptions : questions = GenCatalog(n, c)
    /\ attempts = <<>>
    /\ now = 0
    /\ resp = NoResp
    /\ issued = <<>>
    /\ sessions = <<>>
    /\ hashed = <<>>
    /\ progress = <<>>
    /\ question_id_seq = LastId(questions)

NextStart == \E u \in Users : StartQuizAttempt(u, QuizId)

SpecStart == InitStart /\ [][NextStart]_vars

\* C20: starting an attempt on a quiz without questions fails:
\* generate_quiz_instance yields no instance, the start request ends with an
\* error and the attempts table is left as it was
C20_EmptyQuizCannotStart ==
    [][\A u \in Users :
           (QuizQuestions(QuizId) = <<>> /\ StartQuizAttempt(u, QuizId))
               => /\ \A out \in generate_quiz_instance(QuizId) : out.kind # "ok"
                  /\ resp'.err \in {ErrGenerate, ErrServer}
                  /\ attempts' = attempts
                  /\ issued' = issued]_vars

\* a start request on the quiz without questions answered with the error of
\* the route, no attempt stored
C20_Witness ==
    /\ QuizQuestions(QuizId) = <<>>
    /\ resp.op = "start"
    /\ resp.err = ErrGenerate
    /\ attempts = <<>>

(***************************************************************************)
(* generate_quiz_hash on pairs of instances                                *)
(***************************************************************************)
HashedQuestionData(points) ==
    {[question_id |-> id, question_type |-> "single_choice", points |-> points,
      answers |-> <<TRUE, FALSE>>, answer_mapping |-> m]
     : id \in {1, 2}, m \in {<<0, 1>>, <<1, 0>>}}

RECURSIVE SeqsUpTo(_, _)
SeqsUpTo(S, n) ==
    IF n = 0 THEN {<<>>}
    ELSE SeqsUpTo(S, n - 1)
         \cup {Append(q, x) : q \in {t \in SeqsUpTo(S, n - 1) : Len(t) = n - 1}, x \in S}

\* instances as generate_quiz_instance hands them to generate_quiz_hash
HashInputsA ==
    {[keys |-> {"quiz_id", "questions", "question_ids"}, quiz_id |-> q, questions |-> qs,
      question_ids |-> [i \in 1..Len(qs) |-> qs[i].question_id], quiz_hash |-> <<>>]
     : q \in {QuizId, OtherQuizId}, qs \in SeqsUpTo(HashedQuestionData(1), MaxHashed)}

\* the same with other point values and a quiz_hash entry, which are not hashed
HashInputsB ==
    {[keys |-> {"quiz_id", "questions", "question_ids", "quiz_hash"}, quiz_id |-> q,
      questions |-> qs,
      question_ids |-> [i \in 1..Len(qs) |-> qs[i].question_id], quiz_hash |-> <<"0">>]
     : q \in {QuizId, OtherQuizId}, qs \in SeqsUpTo(HashedQuestionData(2), MaxHashed)}

InitHash ==
    /\ hashed \in {[a |-> x, b |-> y, da |-> <<>>, db |-> <<>>, done |-> FALSE]
                   : x \in HashInputsA, y \in HashInputsB}
    /\ quizzes = (QuizId :> QuizRow)
    /\ questions = Catalog
    /\ attempts = <<>>
    /\ now = 0
    /\ resp = NoResp
    /\ issued = <<>>
    /\ sessions = <<>>
    /\ progress = <<>>
    /\ question_id_seq = LastId(questions)

HashBoth ==
    /\ ~hashed.done
    /\ hashed' = [hashed EXCEPT !.da = generate_quiz_hash(hashed.a),
                                !.db = generate_quiz_hash(hashed.b),
                                !.done = TRUE]
    /\ UNCHANGED <<quizzes, questions, attempts, now, resp, issued, sessions, progress, question_id_seq>>

NextHash == HashBoth

SpecHash == InitHash /\ [][NextHash]_vars

\* what the claim calls the three components of an instance
HashedComponents(quiz_instance) ==
    <<quiz_instance.quiz_id,
      [i \in 1..Len(quiz_instance.questions) |-> quiz_instance.questions[i].question_id],
      [i \in 1..Len(quiz_instance.questions) |-> quiz_instance.questions[i].answer_mapping]>>

\* C10: two instances get the same digest exactly when they agree in the quiz
\* id, the ordered list of selected question ids and the ordered list of
\* answer mappings
C10_DigestDeterminedByComponents ==
    hashed.done =>
        ((hashed.da = hashed.db) <=> (HashedComponents(hashed.a) = HashedComponents(hashed.b)))

\* two instances that differ in fields that are not hashed got one digest,
\* and two with the same ids in another order got two
C10_Witness ==
    /\ hashed.done
    /\ \/ /\ hashed.da = hashed.db
          /\ hashed.a # hashed.b
          /\ Len(hashed.a.questions) = 2
       \/ /\ hashed.da # hashed.db
          /\ Len(hashed.a.questions) = 2
          /\ hashed.a.questions[1].question_id # hashed.a.questions[2].question_id
          /\ hashed.b.questions = <<hashed.a.questions[2], hashed.a.questions[1]>>

(***************************************************************************)
(* Grading of one question                                                 *)
(***************************************************************************)
\* one question of either type, every combination of is_correct flags
GradedQuestions ==
    {[id |-> 1, quiz_id |-> QuizId, question_type |-> t, answers |-> f, points |-> p]
     : t \in {"single_choice", "multiple_choice"}, f \in [1..MaxChoices -> BOOLEAN],
       p \in {1, 2}}

\* what a learner can store as the answer: an index or a list of indices
Selections ==
    {JInt(i) : i \in 0..(MaxChoices - 1)}
    \cup {JList(l) : l \in SeqsUpTo(0..(MaxChoices - 1), MaxChoices)}

\* an attempt of the question with the answer stored
InitGrade ==
    /\ quizzes = (QuizId :> QuizRow)
    /\ \E q \in GradedQuestions : questions = <<q>>
    /\ \E ans \in Selections :
           attempts = <<[NoRow EXCEPT !.id = 1, !.user_id = 1, !.quiz_id = QuizId,
                                      !.answers_given = ("1" :> ans)]>>
    /\ now = 0
    /\ resp = NoResp
    /\ issued = <<>>
    /\ sessions = <<>>
    /\ progress = <<>>
    /\ question_id_seq = LastId(questions)
    /\ hashed = <<>>

\* calculate_total_score, lines 126-136: the stored answer is graded by type
GradeQuestion ==
    /\ resp.op = ""
    /\ LET question == questions[1]
           user_answer == DictGet(attempts[1].answers_given, IntStr(question.id))
           result == IF question.question_type = "single_choice"
                     THEN grade_single_choice(question, user_answer)
                     ELSE grade_multiple_choice(question, user_answer)
       IN  resp' = [op |-> "grade", err |-> IF result.raised THEN ErrServer ELSE ErrNone,
                    ok |-> result.correct, value |-> result]
    /\ UNCHANGED <<quizzes, questions, attempts, now, issued, sessions, hashed, progress, question_id_seq>>

NextGrade == GradeQuestion

SpecGrade == InitGrade /\ [][NextGrade]_vars

\* the indices of the stored answer, in the order submitted
SubmittedIndices(user_answer) ==
    IF user_answer.t = "int" THEN <<user_answer.n>> ELSE user_answer.l

\* C11: a single_choice question is graded correct exactly when exactly one
\* index was submitted and it is in the correct-option set, and an incorrect
\* answer earns nothing
C11_SingleChoiceRule ==
    (resp.op = "grade" /\ questions[1].question_type = "single_choice")
        => LET submitted == SubmittedIndices(attempts[1].answers_given["1"])
           IN  /\ resp.err = ErrNone
               /\ resp.ok <=> (/\ Len(submitted) = 1
                               /\ submitted[1] \in correct_answers(questions[1]))
               /\ resp.value.points_earned = IF resp.ok THEN questions[1].points ELSE 0

\* one index of a correct set of two was graded correct, or two indices of
\* the correct set were graded incorrect
C11_Witness ==
    /\ resp.op = "grade"
    /\ questions[1].question_type = "single_choice"
    /\ Cardinality(correct_answers(questions[1])) = 2
    /\ LET submitted == SubmittedIndices(attempts[1].answers_given["1"])
       IN  /\ SeqToSet(submitted) \subseteq correct_answers(questions[1])
           /\ \/ Len(submitted) = 1 /\ resp.ok
              \/ Len(submitted) = 2 /\ ~resp.ok

\* C12: a multiple_choice question is graded correct exactly when the set of
\* submitted indices equals the correct-option set; subsets and supersets
\* are incorrect and earn nothing
C12_MultipleChoiceRule ==
    (resp.op = "grade" /\ questions[1].question_type = "multiple_choice")
        => LET selected == SeqToSet(SubmittedIndices(attempts[1].answers_given["1"]))
           IN  /\ resp.err = ErrNone
               /\ resp.ok <=> (selected = correct_answers(questions[1]))
               /\ resp.value.points_earned = IF resp.ok THEN questions[1].points ELSE 0

\* a proper subset or a proper superset of a correct set of two was graded
\* incorrect
C12_Witness ==
    /\ resp.op = "grade"
    /\ questions[1].question_type = "multiple_choice"
    /\ Cardinality(correct_answers(questions[1])) = 2
    /\ ~resp.ok
    /\ resp.value.points_earned = 0
    /\ LET selected == SeqToSet(SubmittedIndices(attempts[1].answers_given["1"]))
       IN  \/ selected # {} /\ selected \subseteq correct_answers(questions[1])
           \/ correct_answers(questions[1]) \subseteq selected

(***************************************************************************)
(* calculate_total_score on attempts of a quiz of several questions        *)
(***************************************************************************)
\* Question.points is an Integer column that nothing validates
PointValues == (-1)..2

\* question i of the scored quiz: single choice with option 0 correct, or
\* multiple choice with options 0 and 1 correct
ScoredQuestion(i, p) ==
    IF i % 2 = 1
    THEN [id |-> i, quiz_id |-> QuizId, question_type |-> "single_choice",
          answers |-> <<TRUE, FALSE>>, points |-> p]
    ELSE [id |-> i, quiz_id |-> QuizId, question_type |-> "multiple_choice",
          answers |-> <<TRUE, TRUE>>, points |-> p]

\* what is stored for question i: nothing, the correct answer or an incorrect one
StoredAnswers(i) ==
    IF i % 2 = 1 THEN {JNull, JInt(0), JInt(1)}
    ELSE {JNull, JList(<<0, 1>>), JList(<<0>>)}

\* the answers_given mapping with the instance and the answers that were given
AnswersGiven(ids, ans) ==
    [k \in {InstanceKey} \cup {IntStr(i) : i \in {j \in DOMAIN ans : ans[j] # JNull}} |->
        IF k = InstanceKey
        THEN JDict([keys |-> {"quiz_id", "question_ids", "quiz_hash"}, quiz_id |-> QuizId,
                    questions |-> <<>>, question_ids |-> ids, quiz_hash |-> <<"0">>])
        ELSE ans[CHOOSE i \in DOMAIN ans : IntStr(i) = k]]

\* the ids of a non-empty selection, in catalog order
SelectedIds(n) ==
    {ids \in SeqsUpTo(1..n, n) :
         /\ ids # <<>>
         /\ \A i \in 1..Len(ids) : \A j \in 1..Len(ids) : i < j => ids[i] < ids[j]}

\* two attempts on one instance whose answers differ in at most one question
InitScore ==
    /\ quizzes = (QuizId :> QuizRow)
    /\ \E n \in 1..MaxGraded :
           /\ \E pts \in [1..n -> PointValues] : questions = [i \in 1..n |-> ScoredQuestion(i, pts[i])]
           /\ \E ids \in SelectedIds(n) : \E k \in 1..n :
              \E ans \in {f \in [1..n -> UNION {StoredAnswers(i) : i \in 1..n}] :
                              \A i \in 1..n : f[i] \in StoredAnswers(i)} :
              \E other \in StoredAnswers(k) \ {JNull} :
                  attempts =
                      <<[NoRow EXCEPT !.id = 1, !.user_id = 1, !.quiz_id = QuizId,
                                      !.answers_given = AnswersGiven(ids, ans)],
                        [NoRow EXCEPT !.id = 2, !.user_id = 1, !.quiz_id = QuizId,
                                      !.answers_given =
                                          AnswersGiven(ids, [ans EXCEPT ![k] = other])]>>
    /\ now = 0
    /\ resp = NoResp
    /\ issued = <<>>
    /\ sessions = <<>>
    /\ progress = <<>>
    /\ question_id_seq = LastId(questions)
    /\ hashed = <<>>

\* calculate_total_score applied to both attempts
ScoreAttempts ==
    /\ resp.op = ""
    /\ resp' = [op |-> "score", err |-> ErrNone, ok |-> TRUE,
                value |-> [a \in 1..Len(attempts) |-> calculate_total_score(attempts[a])]]
    /\ UNCHANGED <<quizzes, questions, attempts, now, issued, sessions, hashed, progress, question_id_seq>>

NextScore == ScoreAttempts

SpecScore == InitScore /\ [][NextScore]_vars

\* the questions of the attempt's stored instance
SelectedQuestions(attempt) ==
    SelectSeq(QuizQuestions(attempt.quiz_id),
              LAMBDA q : q.id \in SeqToSet(attempt.answers_given[InstanceKey].o.question_ids))

\* the stored answer of the question exists and is graded correct
GradedCorrect(question, attempt) ==
    LET user_answer == DictGet(attempt.answers_given, IntStr(question.id))
    IN  /\ user_answer # JNull
        /\ IF question.question_type = "single_choice"
           THEN grade_single_choice(question, user_answer).correct
           ELSE grade_multiple_choice(question, user_answer).correct

RECURSIVE SumPoints(_)
SumPoints(qs) == IF qs = <<>> THEN 0 ELSE Head(qs).points + SumPoints(Tail(qs))

\* n / d * 100 rounded to two decimals (half to even), in hundredths, d > 0
RoundedPercentage(n, d) ==
    LET q == (n * 10000) \div d
        r == (n * 10000) % d
    IN  IF 2 * r > d THEN q + 1
        ELSE IF 2 * r < d THEN q
        ELSE IF q % 2 = 0 THEN q ELSE q + 1

\* total_points and points_earned as the claim defines them
ClaimedTotal(attempt) == SumPoints(SelectedQuestions(attempt))
ClaimedEarned(attempt) ==
    SumPoints(SelectSeq(SelectedQuestions(attempt), LAMBDA q : GradedCorrect(q, attempt)))

C15_GradingMonotone ==
    resp.op = "score"
        => \A i \in 1..Len(questions) :
               (/\ questions[i].id \in SeqToSet(attempts[1].answers_given[InstanceKey].o.question_ids)
                /\ \A j \in 1..Len(questions) :
                       j # i => DictGet(attempts[1].answers_given, IntStr(j))
                                = DictGet(attempts[2].answers_given, IntStr(j))
                /\ DictHas(attempts[1].answers_given, IntStr(i))
                /\ ~GradedCorrect(questions[i], attempts[1])
                /\ GradedCorrect(questions[i], attempts[2]))
               => resp.value[2].score_percentage >= resp.value[1].score_percentage


(***************************************************************************)
(* Training progress: models/training_progress.py,                         *)
(* services/progress_service.py, routes/training.py                        *)
(***************************************************************************)
TrainingId == 1

\* Training.slides of the one training: published, no targeting criteria
\* (is_targeted_to_user is True for everyone), a quiz slide between two
\* content slides
TrainingSlides ==
    <<[type |-> "content", quiz_id |-> 0],
      [type |-> "quiz", quiz_id |-> QuizId],
      [type |-> "content", quiz_id |-> 0]>>

ErrTrainingNotFound == "Formation introuvable"
ErrNoProgress == "Progression introuvable"
ErrSlideIndex == "Index de diapositive invalide"
ErrQuizNotDone == "Vous devez completer le quiz pour continuer."
ErrQuizNotPassed == "Vous devez reussir le quiz pour continuer."

\* training_service.get_training_by_id
TrainingExists(training_id) == training_id = TrainingId

\* TrainingProgress.query.filter_by(user_id=, training_id=).first():
\* the position of the row, 0 when there is none
ProgressOf(user_id, training_id) ==
    LET rows == {i \in 1..Len(progress) :
                    /\ progress[i].user_id = user_id
                    /\ progress[i].training_id = training_id}
    IN  IF rows = {} THEN 0 ELSE CHOOSE i \in rows : \A j \in rows : i <= j

\* slide_handlers.validate_slide_completion: [can_proceed, reason];
\* user_interaction is None or Some of the caller's dictionary.  The function
\* is imported by routes/training.py and called by none of its handlers.
validate_slide_completion(slide_type, user_interaction) ==
    IF slide_type \in {"title", "content", "image"}
    THEN [can_proceed |-> TRUE, reason |-> ErrNone]
    ELSE IF slide_type = "video"
    THEN [can_proceed |-> TRUE, reason |-> ErrNone]
    ELSE IF slide_type = "quiz"
    THEN IF user_interaction = None
         THEN [can_proceed |-> FALSE, reason |-> ErrQuizNotDone]
         ELSE IF ~user_interaction[1].quiz_passed
         THEN [can_proceed |-> FALSE, reason |-> ErrQuizNotPassed]
         ELSE [can_proceed |-> TRUE, reason |-> ErrNone]
    ELSE [can_proceed |-> TRUE, reason |-> ErrNone]

\* TrainingProgress.mark_slide_completed
mark_slide_completed(row, slide_index) ==
    [row EXCEPT
        !.completed_slides =
            IF slide_index \in SeqToSet(@) THEN @ ELSE Append(@, slide_index),
        !.status = IF @ = "not_started" THEN "in_progress" ELSE @,
        !.started_at = IF row.status = "not_started" THEN Some(now) ELSE @,
        !.last_accessed_at = Some(now)]

\* TrainingProgress.mark_completed
mark_completed(row) ==
    [row EXCEPT !.status = "completed",
                !.completed_at = Some(now),
                !.last_accessed_at = Some(now)]

\* progress_service.start_training: [progress, err]
start_training(user_id, training_id) ==
    IF ~TrainingExists(training_id)
    THEN [progress |-> progress, err |-> ErrTrainingNotFound]
    ELSE IF ProgressOf(user_id, training_id) # 0
    THEN [progress |-> [progress EXCEPT
                            ![ProgressOf(user_id, training_id)].last_accessed_at = Some(now)],
          err |-> ErrNone]
    ELSE [progress |-> Append(progress,
                              [user_id |-> user_id,
                               training_id |-> training_id,
                               current_slide_index |-> 0,
                               completed_slides |-> <<>>,
                               quiz_attempts |-> <<>>,
                               status |-> "not_started",
                               started_at |-> Some(now),
                               completed_at |-> None,
                               last_accessed_at |-> Some(now)]),
          err |-> ErrNone]

\* progress_service.update_progress: [progress, err]
update_progress(user_id, training_id, slide_index) ==
    LET i == ProgressOf(user_id, training_id)
    IN  IF i = 0
        THEN [progress |-> progress, err |-> ErrNoProgress]
        ELSE [progress |->
                  [progress EXCEPT
                      ![i].current_slide_index = slide_index,
                      ![i].last_accessed_at = Some(now),
                      ![i].status = IF @ = "not_started" THEN "in_progress" ELSE @,
                      ![i].started_at =
                          IF progress[i].status = "not_started" THEN Some(now) ELSE @],
              err |-> ErrNone]

\* progress_service.complete_slide: [progress, err]
complete_slide(user_id, training_id, slide_index) ==
    LET i == ProgressOf(user_id, training_id)
    IN  IF i = 0
        THEN [progress |-> progress, err |-> ErrNoProgress]
        ELSE [progress |-> [progress EXCEPT ![i] = mark_slide_completed(@, slide_index)],
              err |-> ErrNone]

\* progress_service.complete_training: [progress, err]
complete_training(user_id, training_id) ==
    LET i == ProgressOf(user_id, training_id)
    IN  IF i = 0
        THEN [progress |-> progress, err |-> ErrNoProgress]
        ELSE [progress |-> [progress EXCEPT ![i] = mark_completed(@)],
              err |-> ErrNone]

(***************************************************************************)
(* Learners working through the training and its quiz                      *)
(***************************************************************************)
\* slide_index of the requests: negative, every slide, one past the last
SlideIndexInputs == (-1)..Len(TrainingSlides)

\* the users following the training; the quiz is attempted by every user
Learners == {u \in Users : \A v \in Users : u <= v}

InitGate ==
    /\ quizzes = (QuizId :> QuizRow)
    /\ questions = Catalog
    /\ attempts = <<>>
    /\ now = 0
    /\ resp = NoResp
    /\ issued = <<>>
    /\ sessions = <<>>
    /\ hashed = <<>>
    /\ progress = <<>>
    /\ question_id_seq = LastId(questions)

\* routes/training.py start_training
StartTraining(user_id, training_id) ==
    /\ IF ~TrainingExists(training_id)
       THEN /\ resp' = [NoResp EXCEPT !.op = "start_training", !.err = ErrTrainingNotFound]
            /\ UNCHANGED progress
       ELSE LET done == start_training(user_id, training_id)
            IN  /\ progress' = done.progress
                /\ resp' = [NoResp EXCEPT !.op = "start_training", !.err = done.err]
    /\ UNCHANGED <<quizzes, questions, attempts, now, issued, sessions, hashed, question_id_seq>>

\* routes/training.py update_progress
UpdateProgress(user_id, training_id, slide_index) ==
    /\ IF slide_index < 0
       THEN /\ resp' = [NoResp EXCEPT !.op = "update_progress", !.err = ErrSlideIndex]
            /\ UNCHANGED progress
       ELSE LET done == update_progress(user_id, training_id, slide_index)
            IN  /\ progress' = done.progress
                /\ resp' = [NoResp EXCEPT !.op = "update_progress", !.err = done.err]
    /\ UNCHANGED <<quizzes, questions, attempts, now, issued, sessions, hashed, question_id_seq>>

\* routes/training.py complete_training
CompleteTraining(user_id, training_id) ==
    /\ LET done == complete_training(user_id, training_id)
       IN  /\ progress' = done.progress
           /\ resp' = [NoResp EXCEPT !.op = "complete_training", !.err = done.err]
    /\ UNCHANGED <<quizzes, questions, attempts, now, issued, sessions, hashed, question_id_seq>>

\* routes/training.py get_slide: the result of complete_slide is not looked at
GetSlide(user_id, training_id, slide_index) ==
    /\ IF ~TrainingExists(training_id)
       THEN /\ resp' = [NoResp EXCEPT !.op = "get_slide", !.err = ErrTrainingNotFound]
            /\ UNCHANGED progress
       ELSE IF slide_index < 0 \/ slide_index >= Len(TrainingSlides)
       THEN /\ resp' = [NoResp EXCEPT !.op = "get_slide", !.err = ErrSlideIndex]
            /\ UNCHANGED progress
       ELSE /\ progress' = complete_slide(user_id, training_id, slide_index).progress
            /\ resp' = [NoResp EXCEPT !.op = "get_slide"]
    /\ UNCHANGED <<quizzes, questions, attempts, now, issued, sessions, hashed, question_id_seq>>

NextGate ==
    \/ \E u \in Learners : StartTraining(u, TrainingId)
    \/ \E u \in Learners : \E i \in SlideIndexInputs : UpdateProgress(u, TrainingId, i)
    \/ \E u \in Learners : \E i \in SlideIndexInputs : GetSlide(u, TrainingId, i)
    \/ \E u \in Learners : CompleteTraining(u, TrainingId)
    \/ \E u \in Users : StartQuizAttempt(u, QuizId)
    \/ \E a \in AttemptIdInputs : \E qid \in QuestionIdInputs : \E ans \in AnswerInputs :
           SubmitAnswer(a, qid, ans)
    \/ \E a \in AttemptIdInputs : CompleteAttempt(a)

SpecGate == InitGate /\ [][NextGate]_vars

\* the quiz-gated slides of the training, as 0-based slide indices
QuizSlides == {i \in 0..(Len(TrainingSlides) - 1) : TrainingSlides[i + 1].type = "quiz"}

\* some stored attempt of the learner for the quiz has passed = true
HasPassed(user_id, quiz_id) ==
    \E a \in 1..Len(attempts) :
        /\ attempts[a].user_id = user_id
        /\ attempts[a].quiz_id = quiz_id
        /\ attempts[a].passed

\* the progress row stands past slide g: its position, a completed slide or
\* the completion of the training
MovedPast(row, g) ==
    \/ row.current_slide_index > g
    \/ \E k \in 1..Len(row.completed_slides) : row.completed_slides[k] > g
    \/ row.status = "completed"

\* C16: a learner's progress (current_slide_index, completed slides,
\* completion of the training) stands past a quiz slide only if a stored
\* attempt of that learner for that quiz has passed = true
C16_ProgressGatedByPassedAttempt ==
    \A p \in 1..Len(progress) : \A g \in QuizSlides :
        MovedPast(progress[p], g)
            => HasPassed(progress[p].user_id, TrainingSlides[g + 1].quiz_id)


(***************************************************************************)
(* The catalog edited while an attempt is open:                            *)
(* quiz_service.add_question_to_quiz, quiz_service.delete_question         *)
(***************************************************************************)
ErrQuestionNotFound == "Question introuvable."
ErrAnswersRequired == "Les reponses sont requises."

\* add_question_to_quiz: [questions, question_id_seq, err]; question_data has
\* a question_text and a question_type, and no order_index: the new row
\* goes behind the last one
add_question_to_quiz(quiz_id, question_data) ==
    IF ~QuizExists(quiz_id)
    THEN [questions |-> questions, question_id_seq |-> question_id_seq,
          err |-> ErrQuizNotFound]
    ELSE IF question_data.answers = <<>>
    THEN [questions |-> questions, question_id_seq |-> question_id_seq,
          err |-> ErrAnswersRequired]
    ELSE [questions |-> Append(questions,
                               [id |-> question_id_seq + 1,
                                quiz_id |-> quiz_id,
                                question_type |-> question_data.question_type,
                                answers |-> question_data.answers,
                                points |-> question_data.points]),
          question_id_seq |-> question_id_seq + 1,
          err |-> ErrNone]

\* delete_question: [questions, err]
delete_question(question_id) ==
    IF \A i \in 1..Len(questions) : questions[i].id # question_id
    THEN [questions |-> questions, err |-> ErrQuestionNotFound]
    ELSE [questions |-> SelectSeq(questions, LAMBDA q : q.id # question_id),
          err |-> ErrNone]

QuestionDataInputs ==
    {[question_type |-> "single_choice", answers |-> <<TRUE, FALSE>>, points |-> 1],
     [question_type |-> "single_choice", answers |-> <<>>, points |-> 1]}

InitEdit == InitWith(QuizRow)

\* a request that reaches quiz_service.add_question_to_quiz
AddQuestion(quiz_id, question_data) ==
    /\ question_id_seq < MaxQuestions
    /\ LET done == add_question_to_quiz(quiz_id, question_data)
       IN  /\ questions' = done.questions
           /\ question_id_seq' = done.question_id_seq
           /\ resp' = [NoResp EXCEPT !.op = "add_question", !.err = done.err]
    /\ UNCHANGED <<quizzes, attempts, now, issued, sessions, hashed, progress>>

\* a request that reaches quiz_service.delete_question
DeleteQuestion(question_id) ==
    /\ LET done == delete_question(question_id)
       IN  /\ questions' = done.questions
           /\ resp' = [NoResp EXCEPT !.op = "delete_question", !.err = done.err]
    /\ UNCHANGED <<quizzes, attempts, now, issued, sessions, hashed, progress,
                   question_id_seq>>

\* one attempt, its answers, and the catalog edited at any moment
NextEdit ==
    \/ \E u \in Users : attempts = <<>> /\ StartQuizAttempt(u, QuizId)
    \/ \E q \in 1..MaxQuestions : \E ans \in {JInt(0), JInt(1)} :
           SubmitAnswer(1, JInt(q), ans)
    \/ \E question_data \in QuestionDataInputs : AddQuestion(QuizId, question_data)
    \/ \E q \in 1..MaxQuestions : DeleteQuestion(q)
    \/ CompleteAttempt(1)

SpecEdit == InitEdit /\ [][NextEdit]_vars

\* the ids of the instance stored with the attempt
StoredQuestionIds(attempt) == attempt.answers_given[InstanceKey].o.question_ids

\* the Question rows selected at start, as start_quiz_attempt's instance kept
\* them (randomize_answers is off: the answers are in catalog order)
SelectedAtStart(attempt_id) ==
    [i \in 1..Len(issued[attempt_id].questions) |->
        [id |-> issued[attempt_id].questions[i].question_id,
         quiz_id |-> issued[attempt_id].quiz_id,
         question_type |-> issued[attempt_id].questions[i].question_type,
         answers |-> issued[attempt_id].questions[i].answers,
         points |-> issued[attempt_id].questions[i].points]]

\* the score of the attempt's answers over the questions selected at start
ScoreAtStart(attempt_id) ==
    LET acc == ScoreLoop(SelectedAtStart(attempt_id),
                         attempts[attempt_id].answers_given, ZeroScore)
    IN  ScorePercentage(acc.points_earned, acc.total_points)

\* C18: a completion grades as many questions as the stored instance has ids,
\* and stores the score and the passed flag that the questions selected at
\* start give, whatever was added to or deleted from the catalog since
C18_GradingUsesSelectedSet ==
    [][(CompleteAttempt(1) /\ QueryGet(1) # None /\ ~is_completed(attempts[1])
            /\ resp'.err = ErrNone)
       => /\ calculate_total_score(attempts[1]).total_questions
                 = Len(StoredQuestionIds(attempts[1]))
          /\ attempts'[1].score = ScoreAtStart(1)
          /\ attempts'[1].passed
                 = determine_pass_fail(ScoreAtStart(1), quizzes[QuizId].minimum_score)]_vars

(***************************************************************************)
(* Properties of the answer map of one attempt                             *)
(***************************************************************************)
\* C21: an accepted submitAnswer stores the answer of the call under the key
\* of its question id and leaves every other entry of the answer map, and
\* the set of its other keys, as they were
C21_LastWriteWins ==
    [][\A in \in OneSubmitInputs :
           (attempts # <<>> /\ ~is_completed(attempts[1])
                /\ SubmitAnswer(1, in[1], in[2]) /\ resp'.err = ErrNone)
               => /\ DOMAIN attempts'[1].answers_given
                        = (DOMAIN attempts[1].answers_given) \cup {PyStr(in[1])}
                  /\ attempts'[1].answers_given[PyStr(in[1])] = in[2]
                  /\ \A k \in (DOMAIN attempts[1].answers_given) \ {PyStr(in[1])} :
                         attempts'[1].answers_given[k] = attempts[1].answers_given[k]]_vars

\* an accepted submit on an attempt in progress whose answer map holds
\* different selections for questions 1 and 2
C21_Witness ==
    /\ attempts # <<>>
    /\ ~is_completed(attempts[1])
    /\ resp.op = "submit"
    /\ resp.err = ErrNone
    /\ {"1", "2"} \subseteq DOMAIN attempts[1].answers_given
    /\ attempts[1].answers_given["1"] = JList(<<0, 1>>)
    /\ attempts[1].answers_given["2"] = JInt(0)

(***************************************************************************)
(* Overlapping submit_answer requests for different questions              *)
(***************************************************************************)
OverlapQuestionIds == {JInt(Catalog[i].id) : i \in 1..Len(Catalog)}

NextOverlap ==
    \/ \E r \in 1..MaxRequests : StartCheck(r, ConcUser, QuizId)
    \/ \E r \in 1..MaxRequests : StartInsert(r)
    \/ \E r \in 1..MaxRequests : \E a \in 1..MaxAttempts :
           \E qid \in OverlapQuestionIds : \E ans \in AnswerInputs : SubmitRead(r, a, qid, ans)
    \/ \E r \in 1..MaxRequests : SubmitWrite(r)

SpecOverlap == InitConc /\ [][NextOverlap]_vars

\* C22: the write of an accepted submit_answer request keeps every entry the
\* stored answer map holds at that moment, those written by requests that
\* overlapped it included; only the entry of its own question id may change
C22_NoAcceptedAnswerLost ==
    [][\A r \in 1..MaxRequests :
           SubmitWrite(r)
               => LET a == sessions[r].loaded.id
                  IN  \A k \in DOMAIN attempts[a].answers_given :
                          /\ k \in DOMAIN attempts'[a].answers_given
                          /\ k # PyStr(sessions[r].question_id)
                                 => attempts'[a].answers_given[k]
                                        = attempts[a].answers_given[k]]_vars

(***************************************************************************)
(* Two learners, one question out of two selected for each, answers        *)
(* submitted under selected and other question ids                         *)
(***************************************************************************)
QuizRowPool == [QuizRow EXCEPT !.question_pool_size = Some(Len(Catalog) - 1)]

InitKeys == InitWith(QuizRowPool)

\* question_id of the requests: the questions of the quiz and an id of no
\* question
KeyInputs == {JInt(q) : q \in 1..(Len(Catalog) + 1)}

NextKeys ==
    \/ \E u \in Users :
           /\ \A a \in 1..Len(attempts) : attempts[a].user_id # u
           /\ StartQuizAttempt(u, QuizId)
    \/ \E a \in 1..Len(attempts) : \E qid \in KeyInputs : \E ans \in {JInt(0), JInt(1)} :
           SubmitAnswer(a, qid, ans)
    \/ \E a \in 1..Len(attempts) : CompleteAttempt(a)

SpecKeys == InitKeys /\ [][NextKeys]_vars

\* the two attempts hold the same instance and the same selection for each
\* of its question ids
SameSelectedAnswers(a, b) ==
    /\ DictGet(attempts[a].answers_given, InstanceKey)
           = DictGet(attempts[b].answers_given, InstanceKey)
    /\ \A i \in 1..Len(StoredQuestionIds(attempts[a])) :
           DictGet(attempts[a].answers_given, IntStr(StoredQuestionIds(attempts[a])[i]))
               = DictGet(attempts[b].answers_given, IntStr(StoredQuestionIds(attempts[a])[i]))

InitShuffle ==
    /\ \E pool \in PoolSizes : \E rnd \in BOOLEAN :
           quizzes = (QuizId :> [question_pool_size |-> pool, minimum_score |-> 70,
                                 randomize_answers |-> rnd])
                     @@ (OtherQuizId :> QuizRow)
    /\ \E n \in 0..2 : \E c \in 0..MaxOptions : questions = GenCatalog(n, c)
    /\ attempts = <<>>
    /\ now = 0
    /\ resp = NoResp
    /\ issued = <<>>
    /\ sessions = <<>>
    /\ hashed = <<>>
    /\ progress = <<>>
    /\ question_id_seq = LastId(questions)

SpecShuffle == InitShuffle /\ [][NextGen]_vars

\* the Question row of the catalog with this id
QuestionById(question_id) ==
    CHOOSE q \in SeqToSet(questions) : q.id = question_id

\* C25: in a generated instance the answer_mapping of every question maps the
\* displayed positions 0..n-1 one-to-one onto the option indices 0..n-1 of
\* the question and the displayed answers are the options it names; it is
\* the identity when randomize_answers is off and empty, with an empty answer
\* list, for a question without options
C25_AnswerMappingBijective ==
    (resp.op = "generate" /\ resp.err = ErrNone)
        => \A i \in 1..Len(resp.value.questions) :
               LET qd == resp.value.questions[i]
                   q == QuestionById(qd.question_id)
                   n == Len(q.answers)
               IN  /\ Len(qd.answer_mapping) = n
                   /\ Len(qd.answers) = n
                   /\ {qd.answer_mapping[p] : p \in 1..n} = 0..(n - 1)
                   /\ \A p \in 1..n : qd.answers[p] = q.answers[qd.answer_mapping[p] + 1]
                   /\ ~quizzes[QuizId].randomize_answers
                          => \A p \in 1..n : qd.answer_mapping[p] = p - 1
                   /\ n = 0 => (qd.answer_mapping = <<>> /\ qd.answers = <<>>)

\* a generated instance of two questions, the options of the first displayed
\* in another order than the catalog's, those of the second in catalog order
C25_Witness ==
    /\ resp.op = "generate"
    /\ resp.err = ErrNone
    /\ quizzes[QuizId].randomize_answers
    /\ Len(resp.value.questions) = 2
    /\ Len(resp.value.questions[1].answer_mapping) >= 2
    /\ resp.value.questions[1].answer_mapping[1] # 0
    /\ resp.value.questions[2].answer_mapping[1] = 0

(***************************************************************************)
(* Attempts on quizzes whose questions carry any stored point value,       *)
(* completed                                                               *)
(***************************************************************************)
NextPoints == \E a \in 1..Len(attempts) : CompleteAttempt(a)

SpecPoints == InitScore /\ [][NextPoints]_vars

\* C26: the score stored on a Completed attempt lies between 0 and 100 and
\* its points_earned do not exceed its total_points
C26_ScoreWithinRange ==
    \A a \in 1..Len(attempts) :
        is_completed(attempts[a])
            => /\ attempts[a].score >= 0
               /\ attempts[a].score <= 100 * 100
               /\ calculate_total_score(attempts[a]).points_earned
                      <= calculate_total_score(attempts[a]).total_points

(***************************************************************************)
(* Results viewed after the quiz was edited: quiz_service.update_quiz      *)
(***************************************************************************)
\* update_quiz with a data dictionary holding minimum_score: [quizzes, err]
update_quiz(quiz_id, minimum_score) ==
    IF ~QuizExists(quiz_id) THEN [quizzes |-> quizzes, err |-> ErrQuizNotFound]
    ELSE [quizzes |-> [quizzes EXCEPT ![quiz_id].minimum_score = minimum_score],
          err |-> ErrNone]

MinimumScoreInputs == {50, 100}

\* a request that reaches quiz_service.update_quiz
UpdateQuiz(quiz_id, minimum_score) ==
    /\ LET done == update_quiz(quiz_id, minimum_score)
       IN  /\ quizzes' = done.quizzes
           /\ resp' = [NoResp EXCEPT !.op = "update_quiz", !.err = done.err]
    /\ UNCHANGED <<questions, attempts, now, issued, sessions, hashed, progress,
                   question_id_seq>>

\* one attempt answered, completed and viewed, the quiz edited at any moment
NextFrozen ==
    \/ \E u \in Users : attempts = <<>> /\ StartQuizAttempt(u, QuizId)
    \/ \E ans \in {JInt(0), JInt(1)} : SubmitAnswer(1, JInt(Catalog[1].id), ans)
    \/ CompleteAttempt(1)
    \/ \E m \in MinimumScoreInputs : UpdateQuiz(QuizId, m)
    \/ \E q \in 1..Len(Catalog) : DeleteQuestion(q)
    \/ GetAttemptResults(1)

SpecFrozen == InitEdit /\ [][NextFrozen]_vars

\* C28: the overall score_percentage and passed value of the feedback that
\* get_attempt_results returns for a Completed attempt are the score and the
\* passed flag stored on the attempt
C28_FeedbackReportsFrozenResult ==
    (/\ resp.op = "results"
     /\ resp.value.kind = "results"
     /\ ~resp.value.feedback[1].raised)
        => /\ resp.value.feedback[1].overall.score_percentage = attempts[1].score
           /\ resp.value.feedback[1].overall.passed = attempts[1].passed

\* C30: a completeAttempt call on an in-progress attempt whose quiz exists
\* succeeds and moves the attempt to Completed, whatever answer map the
\* accepted submitAnswer calls have stored
C30_InProgressCanBeCompleted ==
    [][(/\ Len(attempts) >= 1
        /\ attempts[1].completed_at = None
        /\ QuizExists(attempts[1].quiz_id)
        /\ CompleteAttempt(1))
       => (resp'.err = ErrNone /\ attempts'[1].completed_at # None)]_vars

(***************************************************************************)
(* The quiz routes: every request names the current user, the quiz id of   *)
(* the URL and an attempt id                                               *)
(***************************************************************************)
ErrRouteNotFound == "Tentative introuvable"
ErrRouteCompleted == "Tentative deja terminee"
ErrRouteNotCompleted == "Cette tentative n'est pas encore terminee."

\* get_user_attempts without the user filter
get_user_attempts_any_user(user_id, quiz_id) ==
    {i \in 1..Len(attempts) : quiz_id # 0 => attempts[i].quiz_id = quiz_id}

\* quiz_attempt_service.get_user_attempts: the attempts of the user, narrowed
\* to the quiz only `if quiz_id`, which a quiz id of 0 does not satisfy
get_user_attempts(user_id, quiz_id) ==
    {i \in 1..Len(attempts) :
         /\ attempts[i].user_id = user_id
         /\ quiz_id # 0 => attempts[i].quiz_id = quiz_id}

\* get_user_attempts(current_user.id, quiz_id).filter_by(id=attempt_id).first()
RouteAttempt(current_user, quiz_id, attempt_id) ==
    IF attempt_id \in get_user_attempts(current_user, quiz_id)
    THEN Some(attempts[attempt_id]) ELSE None

\* the quiz ids a URL carries: none, the quiz of the catalog, another one
UrlQuizIds == {0, QuizId, OtherQuizId}

\* the 404 answer of a route, with the view arguments of the request it answers
RouteNotFoundResp(op, err, current_user, quiz_id, attempt_id) ==
    [NoResp EXCEPT !.op = op, !.err = err,
                   !.value = [current_user |-> current_user, quiz_id |-> quiz_id,
                              attempt_id |-> attempt_id]]

\* routes/quiz.py submit_answer
SubmitAnswerRoute(current_user, quiz_id, attempt_id, question_id, answer) ==
    LET attempt == RouteAttempt(current_user, quiz_id, attempt_id)
    IN  IF attempt = None
        THEN /\ resp' = RouteNotFoundResp("submit", ErrRouteNotFound, current_user, quiz_id, attempt_id)
             /\ UNCHANGED <<quizzes, questions, attempts, now, issued, sessions, hashed,
                            progress, question_id_seq>>
        ELSE IF is_completed(attempt[1])
        THEN /\ resp' = [NoResp EXCEPT !.op = "submit", !.err = ErrRouteCompleted]
             /\ UNCHANGED <<quizzes, questions, attempts, now, issued, sessions, hashed,
                            progress, question_id_seq>>
        ELSE SubmitAnswer(attempt_id, question_id, answer)

\* routes/quiz.py complete_quiz
CompleteQuizRoute(current_user, quiz_id, attempt_id) ==
    LET attempt == RouteAttempt(current_user, quiz_id, attempt_id)
    IN  IF attempt = None
        THEN /\ resp' = RouteNotFoundResp("complete", ErrRouteNotFound, current_user, quiz_id, attempt_id)
             /\ UNCHANGED <<quizzes, questions, attempts, now, issued, sessions, hashed,
                            progress, question_id_seq>>
        ELSE IF is_completed(attempt[1])
        THEN /\ resp' = [NoResp EXCEPT !.op = "complete", !.err = ErrRouteCompleted]
             /\ UNCHANGED <<quizzes, questions, attempts, now, issued, sessions, hashed,
                            progress, question_id_seq>>
        ELSE CompleteAttempt(attempt_id)

\* routes/quiz.py view_results
ViewResultsRoute(current_user, quiz_id, attempt_id) ==
    LET attempt == RouteAttempt(current_user, quiz_id, attempt_id)
    IN  IF attempt = None
        THEN /\ resp' = RouteNotFoundResp("results", ErrAttemptNotFound, current_user, quiz_id, attempt_id)
             /\ UNCHANGED <<quizzes, questions, attempts, now, issued, sessions, hashed,
                            progress, question_id_seq>>
        ELSE IF ~is_completed(attempt[1])
        THEN /\ resp' = [NoResp EXCEPT !.op = "results", !.err = ErrRouteNotCompleted]
             /\ UNCHANGED <<quizzes, questions, attempts, now, issued, sessions, hashed,
                            progress, question_id_seq>>
        ELSE GetAttemptResults(attempt_id)

InitRoutes == InitWith(QuizRow)

\* the attempts are started by one learner; every user sends the requests

NextRoutes ==
    \/ \E u \in Learners : StartQuizAttempt(u, QuizId)
    \/ \E u \in Users : \E q \in UrlQuizIds : \E a \in AttemptIdInputs :
       \E qid \in QuestionIdInputs : \E ans \in AnswerInputs :
           SubmitAnswerRoute(u, q, a, qid, ans)
    \/ \E u \in Users : \E q \in UrlQuizIds : \E a \in AttemptIdInputs :
           CompleteQuizRoute(u, q, a)
    \/ \E u \in Users : \E q \in UrlQuizIds : \E a \in AttemptIdInputs :
           ViewResultsRoute(u, q, a)

SpecRoutes == InitRoutes /\ [][NextRoutes]_vars

\* the answer of a route that found no attempt: 404 for the two POST routes,
\* the flashed message and a redirect for the results page
RouteNotFound ==
    /\ resp'.err \in {ErrRouteNotFound, ErrAttemptNotFound}
    /\ attempts' = attempts

\* some route handles a request of the user for the URL quiz and the attempt
RouteRequest(u, q, a) ==
    \/ \E qid \in QuestionIdInputs : \E ans \in AnswerInputs :
           SubmitAnswerRoute(u, q, a, qid, ans)
    \/ CompleteQuizRoute(u, q, a)
    \/ ViewResultsRoute(u, q, a)

====
